---------------------------- MODULE Spec2Model ----------------------------
(***************************************************************************)
(* A model of the diary analysis plugin: DiaryParser, ContentAnalyzer,     *)
(* TimelineGenerator and the batch commands of DiaryAnalyzerPlugin.        *)
(*                                                                         *)
(* Strings are sequences of characters.  A character is a TLA+ string:     *)
(* ASCII characters stand for themselves, an ideograph is written as its   *)
(* pinyin ("xin" is U+5FC3, "qing" is U+60C5, so <<"xin","qing">> is the   *)
(* mood marker word), and full-width punctuation is written "cn_colon",    *)
(* "cn_comma", "cn_period", "cn_excl", "cn_quest".                         *)
(***************************************************************************)
EXTENDS Integers, Sequences, FiniteSets, TLC

VARIABLES
    plugin,     \* DiaryAnalyzerPlugin: settings, parser, analyzer, timeline
    vault,      \* the files of the diary folder, in vault.getFiles() order
    cmd,        \* the running command of the plugin and its local variables
    calls,      \* the ContentAnalyzer.analyze calls started so far
    notices,    \* the Notice messages shown to the user, in order
    modal,      \* the modal opened by a command, if any
    created,    \* the files written with vault.create, in order
    nextId,     \* number of ids uuidv4 has handed out
    emitted,    \* the ids of the entries generateTimelineData has returned, in order
    build,      \* the last direct call of generateTimelineData and its outcome
    query,      \* the last call of a filter, search or statistics method and its outcome
    completion, \* the last call of complete() of a backend service and its outcome
    saves       \* the saveSettings calls: how many wait for saveData, how many were made

vars ==
    <<plugin, vault, cmd, calls, notices, modal, created, nextId, emitted, build, query,
      completion, saves>>

\* a JavaScript number: NaN, or an integer n
NaN == [nan |-> TRUE, n |-> 0]
Num(v) == [nan |-> FALSE, n |-> v]

-----------------------------------------------------------------------------
(* Characters                                                              *)

Digits == {"0", "1", "2", "3", "4", "5", "6", "7", "8", "9"}
HexLetters == {"a", "b", "c", "d", "e", "f", "A", "B", "C", "D", "E", "F"}
Whitespace == {" ", "\t", "\n"}
Colons == {"cn_colon", ":"}

DigitVal(c) ==
    CASE c = "0" -> 0 [] c = "1" -> 1 [] c = "2" -> 2 [] c = "3" -> 3
      [] c = "4" -> 4 [] c = "5" -> 5 [] c = "6" -> 6 [] c = "7" -> 7
      [] c = "8" -> 8 [] c = "9" -> 9
      [] c \in {"a", "A"} -> 10 [] c \in {"b", "B"} -> 11
      [] c \in {"c", "C"} -> 12 [] c \in {"d", "D"} -> 13
      [] c \in {"e", "E"} -> 14 [] c \in {"f", "F"} -> 15

Drop(s, n) == SubSeq(s, n + 1, Len(s))
Take(s, n) == SubSeq(s, 1, n)

\* the longest prefix of s made of characters of set
RECURSIVE PrefixLen(_, _)
PrefixLen(s, set) ==
    IF s = <<>> \/ Head(s) \notin set THEN 0 ELSE 1 + PrefixLen(Tail(s), set)

\* s starts with the word w at position i
StartsAt(s, i, w) ==
    /\ i + Len(w) - 1 <= Len(s)
    /\ \A k \in 1..Len(w) : s[i + k - 1] = w[k]

RECURSIVE ToNumber(_, _, _)
ToNumber(ds, radix, acc) ==
    IF ds = <<>> THEN acc ELSE ToNumber(Tail(ds), radix, acc * radix + DigitVal(Head(ds)))

\* String.prototype.trim
RECURSIVE TrimEnd(_)
TrimEnd(s) ==
    IF s # <<>> /\ s[Len(s)] \in Whitespace THEN TrimEnd(Take(s, Len(s) - 1)) ELSE s

Trim(s) == TrimEnd(Drop(s, PrefixLen(s, Whitespace)))

\* the digits ds of parseInt as a number, NaN when there are none
RunValue(ds, radix) == IF ds = <<>> THEN NaN ELSE Num(ToNumber(ds, radix, 0))

\* the longest run of digits of the radix at the start of s, as a number
ParseDigits(s, set, radix) == RunValue(Take(s, PrefixLen(s, set)), radix)

IsHex(s) == Len(s) >= 2 /\ s[1] = "0" /\ s[2] \in {"x", "X"}

\* a 0x prefix makes the digits hexadecimal
ParseMagnitude(s) ==
    ParseDigits(IF IsHex(s) THEN Drop(s, 2) ELSE s,
                IF IsHex(s) THEN Digits \cup HexLetters ELSE Digits,
                IF IsHex(s) THEN 16 ELSE 10)

HasSign(s) == s # <<>> /\ Head(s) \in {"-", "+"}

WithSign(negative, v) == IF negative /\ ~v.nan THEN Num(0 - v.n) ELSE v

ParseSigned(s) ==
    WithSign(HasSign(s) /\ Head(s) = "-", ParseMagnitude(IF HasSign(s) THEN Tail(s) ELSE s))

\* the global parseInt(string) with no radix: leading white space, a sign, a
\* 0x prefix, then the longest run of digits; NaN when that run is empty
parseInt(str) == ParseSigned(Drop(str, PrefixLen(str, Whitespace)))

\* String.prototype.split(c) for a one-character separator
RECURSIVE Split(_, _)
Split(s, c) ==
    LET n == PrefixLen(s, {x \in {s[i] : i \in 1..Len(s)} : x # c})
    IN  IF n = Len(s) THEN <<s>> ELSE <<Take(s, n)>> \o Split(Drop(s, n + 1), c)

Map(f(_), s) == [i \in 1..Len(s) |-> f(s[i])]

\* Array.prototype.slice(0, n) for n >= 0
Slice0(s, n) == Take(s, IF n < Len(s) THEN n ELSE Len(s))

Min(a, b) == IF a < b THEN a ELSE b

-----------------------------------------------------------------------------
(* ContentAnalyzer: mood                                                   *)

MoodMarker == <<"xin", "qing">>

\* /xin qing [cn_colon :]\s*(\d+)/ matches text at position i
MoodMatchAt(text, i) ==
    /\ StartsAt(text, i, MoodMarker)
    /\ i + 2 <= Len(text)
    /\ text[i + 2] \in Colons
    /\ LET rest == Drop(text, i + 2)
       IN  PrefixLen(Drop(rest, PrefixLen(rest, Whitespace)), Digits) >= 1

\* the least element of a set of positions
Leftmost(at) == CHOOSE m \in at : \A o \in at : m <= o

\* the capture group of the match at position i: rest is what follows the colon
MoodGroup(rest) ==
    Take(Drop(rest, PrefixLen(rest, Whitespace)),
         PrefixLen(Drop(rest, PrefixLen(rest, Whitespace)), Digits))

MoodMatchIn(text, at) ==
    IF at = {} THEN <<>> ELSE <<MoodGroup(Drop(text, Leftmost(at) + 2))>>

\* text.match(/.../) at the leftmost match: <<>> for null, else the array of
\* capture groups, so that moodMatch(text)[1] is the digits matched
moodMatch(text) == MoodMatchIn(text, {i \in 1..Len(text) : MoodMatchAt(text, i)})

positiveWords ==
    << <<"kai", "xin">>, <<"kuai", "le">>, <<"gao", "xing">>, <<"xing4", "fu">>,
       <<"man", "yi">>, <<"cheng", "gong">>, <<"xi", "huan">> >>

negativeWords ==
    << <<"nan", "guo">>, <<"shang", "xin">>, <<"shi", "wang">>, <<"jiao", "lv">>,
       <<"tong", "ku">>, <<"sheng", "qi">>, <<"tao", "yan">> >>

\* (text.match(new RegExp(word, 'g')) || []).length: the matches do not overlap
RECURSIVE CountMatches(_, _)
CountMatches(text, word) ==
    IF Len(text) < Len(word) THEN 0
    ELSE IF StartsAt(text, 1, word) THEN 1 + CountMatches(Drop(text, Len(word)), word)
    ELSE CountMatches(Tail(text), word)

RECURSIVE CountWords(_, _)
CountWords(text, words) ==
    IF words = <<>> THEN 0
    ELSE CountMatches(text, Head(words)) + CountWords(text, Tail(words))

\* a variant of MoodOfCounts that adds the whole difference
MoodOfCountsUnclamped(positiveCount, negativeCount) ==
    3 + positiveCount - negativeCount

MoodOfCounts(positiveCount, negativeCount) ==
    IF positiveCount > negativeCount
      THEN 3 + Min(2, positiveCount - negativeCount)
    ELSE IF negativeCount > positiveCount
      THEN 3 - Min(2, negativeCount - positiveCount)
    ELSE 3

analyzeMoodWithDictionary(text) ==
    MoodOfCounts(CountWords(text, positiveWords), CountWords(text, negativeWords))

\* score >= 1 && score <= 5, which NaN fails
InMoodRange(score) == ~score.nan /\ score.n >= 1 /\ score.n <= 5

\* a variant of ScoreOr3 that takes the nearest score for a number out of
\* range
ScoreClamped(score) ==
    IF score.nan THEN 3 ELSE IF score.n < 1 THEN 1 ELSE IF score.n > 5 THEN 5 ELSE score.n

ScoreOr3(score) == IF InMoodRange(score) THEN score.n ELSE 3

\* a variant of MoodFromResponse without the range check
MoodFromResponseUnchecked(response) == parseInt(response).n

\* the two lines of analyzeMoodWithAI after the backend answered
MoodFromResponse(response) == ScoreOr3(parseInt(response))

\* parseInt(moodMatch[1]) of analyzeMoodScore, NaN when moodMatch is null
ExplicitMood(match) == IF match = <<>> THEN NaN ELSE parseInt(match[1])

\* analyzeMoodScore returns at the explicit mood value of the text
HasExplicitMood(text) == InMoodRange(ExplicitMood(moodMatch(text)))

\* a variant of Service that picks Ollama first
ServiceOllamaFirst(an) ==
    IF an.ollama THEN "ollama" ELSE IF an.openAI THEN "openai" ELSE "none"

\* the backend analyzeMoodWithAI and the other ...WithAI methods pick
Service(an) ==
    IF an.openAI THEN "openai" ELSE IF an.ollama THEN "ollama" ELSE "none"

\* a sub-operation of analyze: not started, suspended at complete() of the
\* backend svc, returned val, or thrown
Idle(zero) == [st |-> "idle", svc |-> "none", val |-> zero]
Pending(svc, zero) == [st |-> "pending", svc |-> svc, val |-> zero]
Done(v) == [st |-> "done", svc |-> "none", val |-> v]
Failed(zero) == [st |-> "failed", svc |-> "none", val |-> zero]

\* a variant of MoodScoreFrom that asks the backend before it looks at the
\* explicit value
MoodScoreBackendFirst(an, text, mood) ==
    IF an.openAI \/ an.ollama THEN Pending(Service(an), 0)
    ELSE IF InMoodRange(mood) THEN Done(mood.n)
    ELSE Done(analyzeMoodWithDictionary(text))

\* analyzeMoodScore up to its first suspension, mood being the explicit value
MoodScoreFrom(an, text, mood) ==
    IF InMoodRange(mood) THEN Done(mood.n)
    ELSE IF an.openAI \/ an.ollama THEN Pending(Service(an), 0)
    ELSE Done(analyzeMoodWithDictionary(text))

analyzeMoodScore(an, text) == MoodScoreFrom(an, text, ExplicitMood(moodMatch(text)))

-----------------------------------------------------------------------------
(* ContentAnalyzer: keywords                                               *)

Letters ==
    {"a", "b", "c", "d", "e", "f", "g", "h", "i", "j", "k", "l", "m", "n", "o",
     "p", "q", "r", "s", "t", "u", "v", "w", "x", "y", "z",
     "A", "B", "C", "D", "E", "F", "G", "H", "I", "J", "K", "L", "M", "N", "O",
     "P", "Q", "R", "S", "T", "U", "V", "W", "X", "Y", "Z"}

\* the characters of [一-龥] that the model writes
Ideographs ==
    {"xin", "qing", "kai", "kuai", "le", "gao", "xing", "xing4", "fu", "man", "yi",
     "cheng", "gong", "xi", "huan", "nan", "guo", "shang", "shi", "wang", "jiao",
     "lv", "tong", "ku", "sheng", "qi", "tao", "yan", "qu", "zuo", "wan", "can",
     "jia", "shi3", "jie", "shu", "xue", "bu"}

\* [一-龥a-zA-Z0-9]
WordChars == Ideographs \cup Letters \cup Digits

\* String.prototype.split(/\s+/)
RECURSIVE SplitWhitespace(_)
SplitWhitespace(s) ==
    LET n == PrefixLen(s, {s[i] : i \in 1..Len(s)} \ Whitespace)
        rest == Drop(s, n)
    IN  IF n = Len(s) THEN <<s>>
        ELSE <<Take(s, n)>> \o SplitWhitespace(Drop(rest, PrefixLen(rest, Whitespace)))

\* wordFreq.set(word, (wordFreq.get(word) || 0) + 1) on a Map kept as the
\* sequence of its <<key, value>> entries in insertion order
MapIncrement(m, key) ==
    IF \E i \in 1..Len(m) : m[i][1] = key
      THEN [i \in 1..Len(m) |-> IF m[i][1] = key THEN <<key, m[i][2] + 1>> ELSE m[i]]
      ELSE Append(m, <<key, 1>>)

RECURSIVE CountKeys(_, _)
CountKeys(keys, m) ==
    IF keys = <<>> THEN m ELSE CountKeys(Tail(keys), MapIncrement(m, Head(keys)))

\* a variant of InsertByCount that puts e before the entries of equal count
InsertBeforeEqualCount(sorted, e) ==
    LET n == Cardinality({i \in 1..Len(sorted) :
                            \A j \in 1..i : sorted[j][2] > e[2]})
    IN  Take(sorted, n) \o <<e>> \o Drop(sorted, n)

\* one step of a stable sort by descending count: e goes behind every entry
\* whose count is not smaller
InsertByCount(sorted, e) ==
    LET n == Cardinality({i \in 1..Len(sorted) :
                            \A j \in 1..i : sorted[j][2] >= e[2]})
    IN  Take(sorted, n) \o <<e>> \o Drop(sorted, n)

\* Array.prototype.sort((a, b) => b[1] - a[1]), which is stable
RECURSIVE SortByCount(_, _)
SortByCount(entries, sorted) ==
    IF entries = <<>> THEN sorted
    ELSE SortByCount(Tail(entries), InsertByCount(sorted, Head(entries)))

First(e) == e[1]

extractKeywordsWithFrequency(text, maxKeywords) ==
    LET cleanText == [i \in 1..Len(text) |->
                        IF text[i] \in WordChars THEN text[i] ELSE " "]
        words == SplitWhitespace(cleanText)
        wordFreq == CountKeys(SelectSeq(words, LAMBDA w : Len(w) > 1), <<>>)
    IN  Map(First, Slice0(SortByCount(wordFreq, <<>>), maxKeywords))

\* a variant of KeywordsFromResponse that returns every item of the response
KeywordsFromResponseUncut(response, maxKeywords) ==
    Map(Trim, Split(response, ","))

\* the last line of extractKeywordsWithAI
KeywordsFromResponse(response, maxKeywords) ==
    Slice0(Map(Trim, Split(response, ",")), maxKeywords)

\* extractKeywords up to its first suspension
extractKeywords(an, text) ==
    IF an.openAI THEN Pending("openai", <<>>)
    ELSE IF an.ollama THEN Pending("ollama", <<>>)
    ELSE Done(extractKeywordsWithFrequency(text, an.maxKeywords))

-----------------------------------------------------------------------------
(* ContentAnalyzer: activities and summary                                 *)

activityMarkers ==
    << <<"qu">>, <<"zuo">>, <<"wan", "cheng">>, <<"can", "jia">>,
       <<"kai", "shi3">>, <<"jie", "shu">> >>

SentenceEnds == {"cn_period", "cn_excl", "cn_quest"}
ClauseEnds == {"cn_comma", "cn_period", "cn_excl", "cn_quest"}

\* String.prototype.split(/[...]/) for a class of single characters
RECURSIVE SplitAny(_, _)
SplitAny(s, seps) ==
    LET n == PrefixLen(s, {s[i] : i \in 1..Len(s)} \ seps)
    IN  IF n = Len(s) THEN <<s>> ELSE <<Take(s, n)>> \o SplitAny(Drop(s, n + 1), seps)

\* sentence.match(new RegExp(`${marker}([^...]+)`)): <<>> for null, else the
\* array of capture groups of the leftmost match
MarkerMatch(sentence, marker) ==
    LET at == {i \in 1..Len(sentence) :
                 /\ StartsAt(sentence, i, marker)
                 /\ i + Len(marker) <= Len(sentence)
                 /\ sentence[i + Len(marker)] \notin ClauseEnds}
    IN  IF at = {} THEN <<>>
        ELSE LET i == CHOOSE m \in at : \A o \in at : m <= o
                 rest == Drop(sentence, i + Len(marker) - 1)
             IN  <<Take(rest, PrefixLen(rest, {rest[k] : k \in 1..Len(rest)} \ ClauseEnds))>>

\* [...new Set(activities)]: the first occurrence of each element, in order
RECURSIVE Dedupe(_, _)
Dedupe(s, seen) ==
    IF s = <<>> THEN seen
    ELSE Dedupe(Tail(s),
                IF \E i \in 1..Len(seen) : seen[i] = Head(s) THEN seen
                ELSE Append(seen, Head(s)))

\* the inner loop of extractActivitiesWithRules over the markers
RECURSIVE SentenceActivities(_, _)
SentenceActivities(sentence, markers) ==
    IF markers = <<>> THEN <<>>
    ELSE LET match == MarkerMatch(sentence, Head(markers))
         IN  (IF match # <<>> /\ match[1] # <<>> THEN <<Trim(match[1])>> ELSE <<>>)
             \o SentenceActivities(sentence, Tail(markers))

RECURSIVE AllActivities(_)
AllActivities(sentences) ==
    IF sentences = <<>> THEN <<>>
    ELSE SentenceActivities(Head(sentences), activityMarkers)
         \o AllActivities(Tail(sentences))

extractActivitiesWithRules(text) ==
    Dedupe(AllActivities(SplitAny(text, SentenceEnds)), <<>>)

\* the last line of extractActivitiesWithAI
ActivitiesFromResponse(response) == Map(Trim, Split(response, ","))

\* extractActivities up to its first suspension
extractActivities(an, text) ==
    IF an.openAI \/ an.ollama THEN Pending(Service(an), <<>>)
    ELSE Done(extractActivitiesWithRules(text))

SummaryLimit == 100

\* text.split('\n\n')[0]
RECURSIVE FirstParagraph(_)
FirstParagraph(text) ==
    IF Len(text) < 2 THEN text
    ELSE IF text[1] = "\n" /\ text[2] = "\n" THEN <<>>
    ELSE <<Head(text)>> \o FirstParagraph(Tail(text))

generateSimpleSummary(text) ==
    LET firstParagraph == FirstParagraph(text)
    IN  IF Len(firstParagraph) <= SummaryLimit THEN firstParagraph
        ELSE Take(firstParagraph, SummaryLimit) \o <<".", ".", ".">>

\* a variant of generateSummary that takes the backend variant in every mode:
\* without a backend generateSummaryWithAI throws
generateSummaryWithAIOnly(an, text) ==
    IF an.openAI \/ an.ollama THEN Pending(Service(an), <<>>) ELSE Failed(<<>>)

\* generateSummary up to its first suspension
generateSummary(an, text) ==
    IF an.openAI \/ an.ollama THEN Pending(Service(an), <<>>)
    ELSE Done(generateSimpleSummary(text))

-----------------------------------------------------------------------------
(* DiaryParser: dates.  A Date is [y, m, d, ms]: a local calendar day and the *)
(* milliseconds since its midnight.  A date format is the sequence of the    *)
(* tokens moment splits it into: "YYYY", "MM", "DD" and literal characters.  *)

\* new Date(): the clock does not advance within a run of the model
Now == [y |-> 2024, m |-> 6, d |-> 15, ms |-> 1]

IsLeapYear(y) == (y % 4 = 0 /\ y % 100 # 0) \/ y % 400 = 0

DaysInMonth(y, m) ==
    IF m = 2 THEN (IF IsLeapYear(y) THEN 29 ELSE 28)
    ELSE IF m \in {4, 6, 9, 11} THEN 30 ELSE 31

\* the width of the digit run a token's non-strict regex takes: \d{1,4}, \d\d?
TokenWidth(token) == IF token = "YYYY" THEN 4 ELSE 2

\* string.match(getParseRegexForToken(token)): <<start, length>> of the
\* leftmost match in string, <<0, 0>> when there is none
TokenMatch(string, token) ==
    LET set == IF token \in {"YYYY", "MM", "DD"} THEN Digits ELSE {token}
        at == {i \in 1..Len(string) : string[i] \in set}
    IN  IF at = {} THEN <<0, 0>>
        ELSE LET i == CHOOSE m \in at : \A o \in at : m <= o
                 run == PrefixLen(Drop(string, i - 1), set)
             IN  <<i, IF token \in {"YYYY", "MM", "DD"}
                        THEN Min(run, TokenWidth(token)) ELSE 1>>

\* parseTwoDigitYear for a two-digit input, else the number itself
YearOf(parsedInput) ==
    ToNumber(parsedInput, 10, 0)
        + (IF Len(parsedInput) # 2 THEN 0
           ELSE IF ToNumber(parsedInput, 10, 0) > 68 THEN 1900 ELSE 2000)

\* addTimeToArrayFromToken(token, parsedInput, config)
AddToken(token, parsedInput, q) ==
    IF token = "YYYY" THEN [q EXCEPT !.y = YearOf(parsedInput)]
    ELSE IF token = "MM" THEN [q EXCEPT !.m = ToNumber(parsedInput, 10, 0)]
    ELSE IF token = "DD" THEN [q EXCEPT !.d = ToNumber(parsedInput, 10, 0)]
    ELSE q

\* one turn of the loop of moment's configFromStringAndFormat, hit being the
\* match of the token in p.string
TokenStep(token, p, hit) ==
    IF hit[1] = 0 THEN p
    ELSE AddToken(token, SubSeq(p.string, hit[1], hit[1] + hit[2] - 1),
                  [p EXCEPT !.string = Drop(p.string, hit[1] + hit[2] - 1)])

\* that loop: p is [string, y, m, d], with 0 - 1 for a field no token has set
RECURSIVE ParseTokens(_, _)
ParseTokens(tokens, p) ==
    IF tokens = <<>> THEN p
    ELSE ParseTokens(Tail(tokens),
                     TokenStep(Head(tokens), p, TokenMatch(p.string, Head(tokens))))

\* configFromArray and checkOverflow on the fields p the tokens have set.
\* Fields before the first one parsed default to today's, the others to
\* January and the 1st.
DateFromArray(y, m, d) ==
    [valid |-> ~(m < 1 \/ m > 12 \/ d < 1 \/ d > DaysInMonth(y, m)),
     date |-> [y |-> y, m |-> m, d |-> d, ms |-> 0]]

Invalid(parsed) == [parsed EXCEPT !.valid = FALSE]

configFromArray(p) ==
    IF p.y < 0 /\ p.m < 0 /\ p.d < 0
      THEN Invalid(DateFromArray(Now.y, Now.m, Now.d))
      ELSE DateFromArray(IF p.y >= 0 THEN p.y ELSE Now.y,
                         IF p.m >= 0 THEN p.m ELSE IF p.y < 0 THEN Now.m ELSE 1,
                         IF p.d >= 0 THEN p.d ELSE 1)

\* moment(string, format), not strict: [valid, date]
moment(string, format) ==
    configFromArray(ParseTokens(format, [string |-> string, y |-> 0 - 1,
                                         m |-> 0 - 1, d |-> 0 - 1]))

DateSeparators == {"-", "/"}

\* /(\d{4}[-/]\d{2}[-/]\d{2})/ matches content at position i
DateMatchAt(content, i) ==
    /\ i + 9 <= Len(content)
    /\ \A k \in {0, 1, 2, 3, 5, 6, 8, 9} : content[i + k] \in Digits
    /\ content[i + 4] \in DateSeparators
    /\ content[i + 7] \in DateSeparators

IsoDateFormat == <<"YYYY", "-", "MM", "-", "DD">>

\* the date of a valid moment, else what the code goes on to
DateOr(parsed, otherwise) == IF parsed.valid THEN parsed.date ELSE otherwise

\* the second attempt of extractDateInfo: at holds the matches of the regex
ContentDate(content, at) ==
    IF content # <<>> /\ at # {}
      THEN DateOr(moment(SubSeq(content, Leftmost(at), Leftmost(at) + 9), IsoDateFormat),
                  Now)
      ELSE Now

extractDateInfo(fileName, content, dateFormat) ==
    DateOr(IF fileName # <<>> THEN moment(Split(fileName, ".")[1], dateFormat)
           ELSE Invalid(DateFromArray(Now.y, Now.m, Now.d)),
           ContentDate(content, {i \in 1..Len(content) : DateMatchAt(content, i)}))

-----------------------------------------------------------------------------
(* DiaryParser: metadata.  An optional field f of the source is a pair of   *)
(* fields: hasF tells whether it is set, f holds its value.                 *)

LineEnds == {"\n"}

\* /^#\s+(.+)$/m matches content at position i, the start of a line
TitleMatchAt(content, i) ==
    /\ i = 1 \/ content[i - 1] \in LineEnds
    /\ content[i] = "#"
    /\ LET rest == Drop(content, i)
           k == PrefixLen(rest, Whitespace)
       IN  \E j \in 1..k : j < Len(rest) /\ rest[j + 1] \notin LineEnds

\* the greatest element of a set of positions
Rightmost(at) == CHOOSE m \in at : \A o \in at : m >= o

\* a string up to its first line end
LineOf(s) == Take(s, PrefixLen(s, {s[n] : n \in 1..Len(s)} \ LineEnds))

\* the capture group of that match, rest being what follows the #: \s+ takes
\* as much as it can of the k white space characters
TitleLine(rest, k) ==
    LineOf(Drop(rest, Rightmost({j \in 1..k : j < Len(rest) /\ rest[j + 1] \notin LineEnds})))

TitleGroup(content, i) ==
    TitleLine(Drop(content, i), PrefixLen(Drop(content, i), Whitespace))

\* content.match(/^#\s+(.+)$/m): <<>> for null, else the capture groups
TitleMatchIn(content, at) ==
    IF at = {} THEN <<>> ELSE <<TitleGroup(content, Leftmost(at))>>

titleMatch(content) ==
    TitleMatchIn(content, {i \in 1..Len(content) : TitleMatchAt(content, i)})

\* /(?:^|\s)#([^\s#]+)/ matches content at position i, where the # is
TagMatchAt(content, i) ==
    /\ content[i] = "#"
    /\ i = 1 \/ content[i - 1] \in Whitespace
    /\ i < Len(content)
    /\ content[i + 1] \notin Whitespace \cup {"#"}

\* content.match(/.../g) and tags.map(tag => tag.trim().replace('#', ''))
RECURSIVE Tags(_, _)
Tags(content, i) ==
    IF i > Len(content) THEN <<>>
    ELSE IF TagMatchAt(content, i)
      THEN LET rest == Drop(content, i)
               n == PrefixLen(rest, {rest[k] : k \in 1..Len(rest)} \ (Whitespace \cup {"#"}))
           IN  <<Take(rest, n)>> \o Tags(content, i + n + 1)
    ELSE Tags(content, i + 1)

\* the metadata object extractMetadata fills from its three matches
Metadata(titleMatched, tags, moodMatched) ==
    [hasTitle |-> titleMatched # <<>>,
     title |-> IF titleMatched # <<>> THEN Trim(titleMatched[1]) ELSE <<>>,
     hasTags |-> tags # <<>>,
     tags |-> tags,
     hasMood |-> moodMatched # <<>>,
     mood |-> IF moodMatched # <<>> THEN parseInt(moodMatched[1]).n ELSE 0]

extractMetadata(content) ==
    Metadata(titleMatch(content), Tags(content, 1), moodMatch(content))

-----------------------------------------------------------------------------
(* TimelineGenerator                                                       *)

\* the decimal digits of a natural number
RECURSIVE NumToStr(_)
NumToStr(n) ==
    LET digit == SubSeq(<<"0", "1", "2", "3", "4", "5", "6", "7", "8", "9">>,
                        (n % 10) + 1, (n % 10) + 1)
    IN  IF n < 10 THEN digit ELSE NumToStr(n \div 10) \o digit

\* date.toLocaleDateString('zh-CN', {year: 'numeric', month: 'long',
\* day: 'numeric'}) + ' de riji'
generateTitle(date) ==
    NumToStr(date.y) \o <<"nian">> \o NumToStr(date.m) \o <<"yue">>
        \o NumToStr(date.d) \o <<"ri4">> \o <<" ", "de", "ri4", "ji">>

\* uuidv4(): the k-th call returns the k-th fresh id
uuidv4(k) == k

\* a variant of TimelineEntry whose title is the metadata title, set or not
EntryWithMetadataTitle(diary, analysis, id) ==
    [id |-> uuidv4(id + 1),
     date |-> diary.date,
     title |-> diary.metadata.title,
     summary |-> analysis.summary,
     keywords |-> analysis.keywords,
     moodScore |-> analysis.moodScore,
     activities |-> analysis.activities]

\* a variant of TimelineEntry whose id is the path of the record
EntryWithPathId(diary, analysis, id) ==
    [id |-> diary.path,
     date |-> diary.date,
     title |-> IF diary.metadata.hasTitle /\ diary.metadata.title # <<>>
                 THEN diary.metadata.title ELSE generateTitle(diary.date),
     summary |-> analysis.summary,
     keywords |-> analysis.keywords,
     moodScore |-> analysis.moodScore,
     activities |-> analysis.activities]

\* one element of the diaries.map(...) of generateTimelineData; id is the
\* number of ids handed out before
TimelineEntry(diary, analysis, id) ==
    [id |-> uuidv4(id + 1),
     date |-> diary.date,
     title |-> IF diary.metadata.hasTitle /\ diary.metadata.title # <<>>
                 THEN diary.metadata.title ELSE generateTitle(diary.date),
     summary |-> analysis.summary,
     keywords |-> analysis.keywords,
     moodScore |-> analysis.moodScore,
     activities |-> analysis.activities]

\* the ids of a sequence of entries
Ids(entries) == [index \in 1..Len(entries) |-> entries[index].id]

\* a variant of generateTimelineData without the length check: it pairs the
\* elements up to the shorter length
generateTimelineDataUnchecked(diaries, analyses, ids) ==
    [threw |-> FALSE,
     entries |-> [index \in 1..Min(Len(diaries), Len(analyses)) |->
                    TimelineEntry(diaries[index], analyses[index], ids + index - 1)]]

\* [threw, entries]: the thrown Error or the returned array; ids counts the
\* ids handed out before the call
generateTimelineData(diaries, analyses, ids) ==
    IF Len(diaries) # Len(analyses)
      THEN [threw |-> TRUE, entries |-> <<>>]
      ELSE [threw |-> FALSE,
            entries |-> [index \in 1..Len(diaries) |->
                           TimelineEntry(diaries[index], analyses[index], ids + index - 1)]]

\* a < b on Dates: by the time value, which orders them as day and time do
DateBefore(a, b) ==
    \/ a.y < b.y
    \/ a.y = b.y /\ a.m < b.m
    \/ a.y = b.y /\ a.m = b.m /\ a.d < b.d
    \/ a.y = b.y /\ a.m = b.m /\ a.d = b.d /\ a.ms < b.ms

\* a variant of filterEntriesByDateRange that drops the entries at the bounds
filterEntriesInsideDateRange(entries, startDate, endDate) ==
    SelectSeq(entries, LAMBDA entry :
        /\ ~(startDate.has /\ ~DateBefore(startDate.date, entry.date))
        /\ ~(endDate.has /\ ~DateBefore(entry.date, endDate.date)))

filterEntriesByDateRange(entries, startDate, endDate) ==
    SelectSeq(entries, LAMBDA entry :
        /\ ~(startDate.has /\ DateBefore(entry.date, startDate.date))
        /\ ~(endDate.has /\ DateBefore(endDate.date, entry.date)))

UpperCase ==
    <<"A", "B", "C", "D", "E", "F", "G", "H", "I", "J", "K", "L", "M", "N", "O",
      "P", "Q", "R", "S", "T", "U", "V", "W", "X", "Y", "Z">>
LowerCase ==
    <<"a", "b", "c", "d", "e", "f", "g", "h", "i", "j", "k", "l", "m", "n", "o",
      "p", "q", "r", "s", "t", "u", "v", "w", "x", "y", "z">>

\* String.prototype.toLowerCase on one character and on a string
LowerChar(c) ==
    IF \E i \in 1..Len(UpperCase) : UpperCase[i] = c
      THEN LowerCase[CHOOSE i \in 1..Len(UpperCase) : UpperCase[i] = c]
      ELSE c

toLowerCase(s) == [i \in 1..Len(s) |-> LowerChar(s[i])]

\* String.prototype.includes
includes(s, search) == \E i \in 1..(Len(s) + 1) : StartsAt(s, i, search)

\* items.some(item => item.toLowerCase().includes(lowercaseKeyword))
SomeIncludes(items, lowercaseKeyword) ==
    \E i \in 1..Len(items) : includes(toLowerCase(items[i]), lowercaseKeyword)

\* the callback of the filter of searchEntriesByKeyword
EntryMatches(entry, lowercaseKeyword) ==
    \/ SomeIncludes(entry.keywords, lowercaseKeyword)
    \/ includes(toLowerCase(entry.summary), lowercaseKeyword)
    \/ SomeIncludes(entry.activities, lowercaseKeyword)

\* a variant of searchEntriesByKeyword that compares with the keyword as given
searchEntriesByExactKeyword(entries, keyword) ==
    SelectSeq(entries, LAMBDA entry : EntryMatches(entry, keyword))

searchEntriesByKeyword(entries, keyword) ==
    SelectSeq(entries, LAMBDA entry : EntryMatches(entry, toLowerCase(keyword)))

\* the two nested forEach of findTopKeywords and of findTopActivities, on
\* the Map m
RECURSIVE CountKeywords(_, _)
CountKeywords(entries, m) ==
    IF entries = <<>> THEN m
    ELSE CountKeywords(Tail(entries), CountKeys(Head(entries).keywords, m))

RECURSIVE CountActivities(_, _)
CountActivities(entries, m) ==
    IF entries = <<>> THEN m
    ELSE CountActivities(Tail(entries), CountKeys(Head(entries).activities, m))

\* a variant of findTopKeywords that does not sort
findFirstKeywords(entries, limit) ==
    Slice0(CountKeywords(entries, <<>>), limit)

\* an array of [key, count] pairs
findTopKeywords(entries, limit) ==
    Slice0(SortByCount(CountKeywords(entries, <<>>), <<>>), limit)

findTopActivities(entries, limit) ==
    Slice0(SortByCount(CountActivities(entries, <<>>), <<>>), limit)

\* the default of the parameter limit
TopLimit == 10

\* Math.round(p / q) for q > 0: the nearest integer, a half going up
MathRound(p, q) == ((2 * p) + q) \div (2 * q)

\* entries.reduce((acc, entry) => acc + entry.moodScore, 0)
RECURSIVE SumMoods(_)
SumMoods(entries) ==
    IF entries = <<>> THEN 0 ELSE Head(entries).moodScore + SumMoods(Tail(entries))

\* a variant of calculateAverageMood that cuts the mean instead of rounding it
calculateAverageMoodCut(entries) ==
    IF Len(entries) = 0 THEN 0 ELSE (SumMoods(entries) * 10) \div Len(entries)

\* calculateAverageMood, the result in tenths: Math.round((sum / length) * 10)
\* is the number of tenths, and the division by 10 makes the number of them
calculateAverageMood(entries) ==
    IF Len(entries) = 0 THEN 0 ELSE MathRound(SumMoods(entries) * 10, Len(entries))

\* distribution[score] = (distribution[score] || 0) + 1 on the object kept as
\* the function from its keys to their values
Increment(counts, key) ==
    [k \in DOMAIN counts \cup {key} |->
        IF k = key THEN (IF key \in DOMAIN counts THEN counts[key] ELSE 0) + 1
        ELSE counts[k]]

\* the forEach of calculateMoodDistribution on the object counts
RECURSIVE CountMoods(_, _)
CountMoods(entries, counts) ==
    IF entries = <<>> THEN counts
    ELSE CountMoods(Tail(entries),
                    Increment(counts, MathRound(Head(entries).moodScore, 1)))

\* a variant of calculateMoodDistribution that starts from an empty object
calculateMoodDistributionFromEmpty(entries) == CountMoods(entries, <<>>)

\* calculateMoodDistribution: the object {1: 0, 2: 0, 3: 0, 4: 0, 5: 0} after
\* the forEach
calculateMoodDistribution(entries) == CountMoods(entries, [k \in 1..5 |-> 0])

\* entry.date.toISOString().substring(0, 7) of a year of four digits
MonthKey(date) ==
    NumToStr(date.y) \o <<"-">> \o (IF date.m < 10 THEN <<"0">> ELSE <<>>)
        \o NumToStr(date.m)

\* the forEach of calculateEntriesPerMonth on the object counts
RECURSIVE CountMonths(_, _)
CountMonths(entries, counts) ==
    IF entries = <<>> THEN counts
    ELSE CountMonths(Tail(entries), Increment(counts, MonthKey(Head(entries).date)))

calculateEntriesPerMonth(entries) == CountMonths(entries, <<>>)

\* generateTimelineStats: the object of the six statistics
generateTimelineStats(entries) ==
    [totalEntries |-> Len(entries),
     averageMood |-> calculateAverageMood(entries),
     moodDistribution |-> calculateMoodDistribution(entries),
     topKeywords |-> findTopKeywords(entries, TopLimit),
     topActivities |-> findTopActivities(entries, TopLimit),
     entriesPerMonth |-> calculateEntriesPerMonth(entries)]

-----------------------------------------------------------------------------
(* DiaryParser: files.  A file of the vault is                             *)
(* [path, basename, extension, readable, content].                         *)

File(folder, basename, extension, readable, content) ==
    [path |-> folder \o <<"/">> \o basename \o <<".">> \o extension,
     basename |-> basename, extension |-> extension,
     readable |-> readable, content |-> content]

\* String.prototype.startsWith
StartsWith(s, prefix) == StartsAt(s, 1, prefix)

MdExtension == <<"m", "d">>

\* scanDiaryFiles
scanDiaryFiles(parser, files) ==
    SelectSeq(files, LAMBDA file :
        StartsWith(file.path, parser.diaryFolder) /\ file.extension = MdExtension)

\* parseDiaryContent throws: vault.read rejects, or the content is empty
ParseThrows(file) == ~file.readable \/ file.content = <<>>

\* the DiaryContent parseDiaryContent returns when it does not throw
parseDiaryContent(parser, file) ==
    [date |-> extractDateInfo(file.basename, file.content, parser.dateFormat),
     content |-> file.content,
     metadata |-> extractMetadata(file.content),
     path |-> file.path]

-----------------------------------------------------------------------------
(* ContentAnalyzer.analyze.  A call is [an, content, pc, kw, mood, act,     *)
(* summary, result]: the analyzer it runs on, its argument, where it is     *)
(* suspended ("awaitAll", "awaitSummary") or how it ended ("done",          *)
(* "failed"), its four sub-operations and the AnalysisResult it returned.   *)

NoResult == [keywords |-> <<>>, moodScore |-> 0, summary |-> <<>>, activities |-> <<>>]

SubOps == {"kw", "mood", "act", "summary"}

SubOp(call, op) ==
    CASE op = "kw" -> call.kw [] op = "mood" -> call.mood
      [] op = "act" -> call.act [] op = "summary" -> call.summary

\* a variant of StartExtractors that starts the keyword extraction alone
StartExtractorsInTurn(an, text) ==
    [kw |-> extractKeywords(an, text), mood |-> Idle(0), act |-> Idle(<<>>)]

\* the three extractors of Promise.all([...]) of analyze, as started by it
StartExtractors(an, text) ==
    [kw |-> extractKeywords(an, text),
     mood |-> analyzeMoodScore(an, text),
     act |-> extractActivities(an, text)]

\* a variant of Rejected for which a failed extractor does not reject
NeverRejected(call) == FALSE

\* Promise.all([...]) of analyze rejects: one of the three extractors threw
Rejected(call) == "failed" \in {call.kw.st, call.mood.st, call.act.st}

\* analyze resumed: after Promise.all settled, and after generateSummary did
RECURSIVE Resume(_)
Resume(call) ==
    IF call.pc = "awaitAll"
      THEN IF Rejected(call)
             THEN [call EXCEPT !.pc = "failed"]
           ELSE IF {call.kw.st, call.mood.st, call.act.st} = {"done"}
             THEN Resume([call EXCEPT !.pc = "awaitSummary",
                                      !.summary = generateSummary(call.an, call.content.content)])
           ELSE call
    ELSE IF call.pc = "awaitSummary"
      THEN IF call.summary.st = "failed" THEN [call EXCEPT !.pc = "failed"]
           ELSE IF call.summary.st = "done"
             THEN [call EXCEPT !.pc = "done",
                               !.result = [keywords |-> call.kw.val,
                                           moodScore |-> call.mood.val,
                                           summary |-> call.summary.val,
                                           activities |-> call.act.val]]
           ELSE call
    ELSE call

\* the call of analyze at its await Promise.all, its extractors started
NewCall(an, content, started) ==
    [an |-> an, content |-> content, pc |-> "awaitAll",
     kw |-> started.kw, mood |-> started.mood, act |-> started.act,
     summary |-> Idle(<<>>), result |-> NoResult]

\* analyze(content) on the analyzer an, up to its first suspension
analyze(an, content) ==
    Resume(NewCall(an, content, StartExtractors(an, content.content)))

\* what a sub-operation returns once complete() answered with response
FromResponse(call, op, response) ==
    CASE op = "kw" -> KeywordsFromResponse(response, call.an.maxKeywords)
      [] op = "mood" -> MoodFromResponse(response)
      [] op = "act" -> ActivitiesFromResponse(response)
      [] op = "summary" -> response

SetSubOp(call, op, v) ==
    CASE op = "kw" -> [call EXCEPT !.kw = v]
      [] op = "mood" -> [call EXCEPT !.mood = v]
      [] op = "act" -> [call EXCEPT !.act = v]
      [] op = "summary" -> [call EXCEPT !.summary = v]

\* complete() of the sub-operation op resolved with response
Answered(call, op, response) ==
    Resume(SetSubOp(call, op, Done(FromResponse(call, op, response))))

\* a variant of Thrown that also stops the sub-operations still suspended
ThrownStoppingSiblings(call, op) ==
    LET stop(o) == IF o.st = "pending" THEN Failed(o.val) ELSE o
    IN  Resume([call EXCEPT !.kw = stop(call.kw), !.mood = stop(call.mood),
                            !.act = stop(call.act), !.summary = stop(call.summary)])

\* complete() of the sub-operation op threw
Thrown(call, op) ==
    Resume(SetSubOp(call, op, Failed(SubOp(call, op).val)))

-----------------------------------------------------------------------------
(* DiaryAnalyzerPlugin.  cmd is [name, pc, parser, files, i, range,          *)
(* diaryContents, records, first, n, analyses, entries, path]: the command,  *)
(* where it is                                                               *)
(* suspended ("parsing": vault.read of files[i], "analyzing": Promise.all    *)
(* of the calls first+1 .. first+n, "creating": vault.create of path) or how *)
(* it ended ("done", "error"), and its local variables: diaryContents is     *)
(* what parseMultipleDiaries has collected, records the list that is         *)
(* analysed and handed to generateTimelineData.                              *)

initializeServices(st) ==
    [settings |-> st,
     parser |-> [diaryFolder |-> st.diaryFolder, dateFormat |-> st.dateFormat],
     analyzer |-> [openAI |-> st.useOpenAI /\ st.openAIApiKey,
                   ollama |-> st.useOllama,
                   maxKeywords |-> st.maxKeywords],
     timeline |-> [dateFormat |-> st.dateFormat]]

BatchCommands ==
    {"analyzeDiaries", "analyzeDiaryRange", "generateTimeline", "exportAnalysisReport"}

NoRange == [startDate |-> <<>>, endDate |-> <<>>]

IdleCmd ==
    [name |-> "none", pc |-> "idle", parser |-> [diaryFolder |-> <<>>, dateFormat |-> <<>>],
     files |-> <<>>, i |-> 0, range |-> NoRange, diaryContents |-> <<>>,
     records |-> <<>>, first |-> 0, n |-> 0, analyses |-> <<>>, entries |-> <<>>, path |-> <<>>]

\* new Notice(...) of the command name: kind "error" in its catch block, with
\* what was thrown, else "nofiles" or "done"
Notice(kind, name, thrown) == [kind |-> kind, cmd |-> name, thrown |-> thrown]

\* the code unit of a character of an ISO date
CharCode(c) == IF c = "-" THEN 45 ELSE 48 + DigitVal(c)

\* a <= b on strings: by code units, a prefix first
RECURSIVE StringLeq(_, _)
StringLeq(a, b) ==
    IF a = <<>> THEN TRUE
    ELSE IF b = <<>> THEN FALSE
    ELSE IF Head(a) # Head(b) THEN CharCode(Head(a)) < CharCode(Head(b))
    ELSE StringLeq(Tail(a), Tail(b))

\* String.prototype.padStart(width, '0')
RECURSIVE PadStart(_, _)
PadStart(s, width) == IF Len(s) >= width THEN s ELSE PadStart(<<"0">> \o s, width)

\* date.toISOString().split('T')[0], the local time zone being UTC
IsoDay(date) ==
    PadStart(NumToStr(date.y), 4) \o <<"-">> \o PadStart(NumToStr(date.m), 2)
        \o <<"-">> \o PadStart(NumToStr(date.d), 2)

Between(day, range) == StringLeq(range.startDate, day) /\ StringLeq(day, range.endDate)

\* the filter of analyzeDiaryRange
InRange(diary, range) == Between(IsoDay(diary.date), range)

TimelineName == <<"/", "shi", "jian", "xian", ".", "m", "d">>
ReportName == <<"/", "fen", "xi", "bao", "gao", ".", "m", "d">>

\* The state a command works on is w = [plugin, cmd, calls, notices, modal,
\* nextId, emitted]; each operator below returns the w its code leaves.

Catch(w, thrown) ==
    [w EXCEPT !.cmd.pc = "error",
              !.notices = Append(w.notices, Notice("error", w.cmd.name, thrown))]

\* a variant of PromiseAll that returns the values last call first
PromiseAllReversed(promises, first, n) == [k \in 1..n |-> promises[first + n + 1 - k].result]

\* Promise.all(...): the values of the calls in the order of the array
PromiseAll(promises, first, n) == [k \in 1..n |-> promises[first + k].result]

\* a batch command after generateTimelineData returned entries
Deliver(v, entries) ==
    IF v.cmd.name \in {"analyzeDiaries", "analyzeDiaryRange"}
      THEN [v EXCEPT !.cmd.pc = "done", !.modal = [kind |-> "report", entries |-> entries]]
    ELSE IF v.cmd.name = "generateTimeline"
      THEN [v EXCEPT !.cmd.pc = "creating",
                     !.cmd.path = v.plugin.settings.diaryFolder \o TimelineName]
    ELSE IF v.plugin.settings.includeCharts
      \* exportChart(chart) gets a ChartData, which has no toBase64Image
      THEN Catch(v, "TypeError")
    ELSE [v EXCEPT !.cmd.pc = "creating",
                   !.cmd.path = v.plugin.settings.diaryFolder \o ReportName]

\* a batch command at the outcome built of generateTimelineData
Built(u, built) ==
    IF built.threw THEN Catch(u, "LengthMismatch")
    ELSE Deliver([u EXCEPT !.cmd.entries = built.entries,
                           !.nextId = u.nextId + Len(built.entries),
                           !.emitted = u.emitted \o Ids(built.entries)],
                 built.entries)

\* a batch command from generateTimelineData on, its analyses being there
Aggregate(w, analyses) ==
    Built([w EXCEPT !.cmd.analyses = analyses],
          generateTimelineData(w.cmd.records, analyses, w.nextId))

\* a variant of Settled that waits for every call and goes on whether or not
\* one failed
SettledIgnoringFailures(w, mine) ==
    IF mine \subseteq {"done", "failed"}
      THEN IF w.cmd.name = "analyzeCurrentDiary"
             THEN [w EXCEPT !.cmd.pc = "done",
                            !.modal = [kind |-> "result",
                                       entries |-> <<w.calls[w.cmd.first + 1].result>>]]
             ELSE Aggregate(w, PromiseAll(w.calls, w.cmd.first, w.cmd.n))
    ELSE w

\* a command resumed after await Promise.all(...) of its analyze calls, mine
\* being where those calls are
Settled(w, mine) ==
    IF "failed" \in mine THEN Catch(w, "BackendFailure")
    ELSE IF mine \subseteq {"done"}
      THEN IF w.cmd.name = "analyzeCurrentDiary"
             THEN [w EXCEPT !.cmd.pc = "done",
                            !.modal = [kind |-> "result",
                                       entries |-> <<w.calls[w.cmd.first + 1].result>>]]
             ELSE Aggregate(w, PromiseAll(w.calls, w.cmd.first, w.cmd.n))
    ELSE w

Settle(w) ==
    IF w.cmd.pc # "analyzing" THEN w
    ELSE Settled(w, {w.calls[w.cmd.first + k].pc : k \in 1..w.cmd.n})

\* a variant of AnalyzeAll that starts the first call and queues the others
AnalyzeAllInTurn(w, diaries) ==
    Settle([w EXCEPT !.cmd.pc = "analyzing",
                     !.cmd.records = diaries,
                     !.cmd.first = Len(w.calls),
                     !.cmd.n = Len(diaries),
                     !.calls = w.calls \o [k \in 1..Len(diaries) |->
                                             IF k = 1 THEN analyze(w.plugin.analyzer, diaries[k])
                                             ELSE NewCall(w.plugin.analyzer, diaries[k],
                                                          [kw |-> Idle(<<>>), mood |-> Idle(0),
                                                           act |-> Idle(<<>>)])]])

\* diaryContents.map(diary => this.analyzer.analyze(diary)) and the await
AnalyzeAll(w, diaries) ==
    Settle([w EXCEPT !.cmd.pc = "analyzing",
                     !.cmd.records = diaries,
                     !.cmd.first = Len(w.calls),
                     !.cmd.n = Len(diaries),
                     !.calls = w.calls \o [k \in 1..Len(diaries) |->
                                             analyze(w.plugin.analyzer, diaries[k])]])

\* a batch command from the return of parseMultipleDiaries on
Parsed(w, results) ==
    AnalyzeAll(w, IF w.cmd.name = "analyzeDiaryRange"
                    THEN SelectSeq(results, LAMBDA diary : InRange(diary, w.cmd.range))
                    ELSE results)

\* a batch command after scanDiaryFiles, v.cmd.files being what it found
Scanned(v) ==
    IF v.cmd.name = "analyzeDiaries" /\ v.cmd.files = <<>>
      THEN [v EXCEPT !.cmd.pc = "done",
                     !.notices = Append(v.notices, Notice("nofiles", v.cmd.name, "none"))]
    ELSE IF v.cmd.files = <<>> THEN Parsed(v, <<>>)
    ELSE [v EXCEPT !.cmd.pc = "parsing", !.cmd.i = 1]

\* a batch command from its start to its first vault.read
StartBatch(w, name, range, files) ==
    Scanned([w EXCEPT !.cmd = [IdleCmd EXCEPT
                !.name = name, !.parser = w.plugin.parser, !.range = range,
                !.files = scanDiaryFiles(w.plugin.parser, files)]])

\* a variant of Collect that keeps a record of every file
CollectAll(results, parser, file) == Append(results, parseDiaryContent(parser, file))

\* the try block of the loop of parseMultipleDiaries on file
Collect(results, parser, file) ==
    IF ParseThrows(file) THEN results
    ELSE Append(results, parseDiaryContent(parser, file))

\* parseMultipleDiaries after that block, results being what it holds now
Collected(w, results) ==
    IF w.cmd.i = Len(w.cmd.files)
      THEN Parsed([w EXCEPT !.cmd.diaryContents = results, !.cmd.i = w.cmd.i + 1], results)
      ELSE [w EXCEPT !.cmd.diaryContents = results, !.cmd.i = w.cmd.i + 1]

\* parseMultipleDiaries resumed after parseDiaryContent(files[i]) settled
ParseStep(w) ==
    Collected(w, Collect(w.cmd.diaryContents, w.cmd.parser, w.cmd.files[w.cmd.i]))

\* analyzeCurrentDiary resumed after parseDiaryContent(file) settled
CurrentStep(w) ==
    IF ParseThrows(w.cmd.files[1]) THEN Catch(w, "ParseFailure")
    ELSE AnalyzeAll(w, <<parseDiaryContent(w.plugin.parser, w.cmd.files[1])>>)

-----------------------------------------------------------------------------
(* The plugin with one command run on a vault                              *)

MaxFiles == 2

DiaryFolder == <<"d">>
OtherFolder == <<"o">>

\* kai xin: no title, no mood marker
PlainText == <<"kai", "xin">>
\* "# T", then xin qing: 5
MarkedText == <<"#", " ", "T", "\n", "xin", "qing", ":", "5">>

SampleFiles ==
    {File(DiaryFolder, <<"2", "0", "2", "4", "-", "0", "1", "-", "1", "5">>, MdExtension, TRUE, PlainText),
     File(DiaryFolder, <<"n">>, MdExtension, TRUE, MarkedText),
     File(DiaryFolder, <<"e">>, MdExtension, TRUE, <<>>),
     File(DiaryFolder, <<"u">>, MdExtension, FALSE, PlainText),
     File(OtherFolder, <<"x">>, MdExtension, TRUE, PlainText)}

\* the vaults of at most MaxFiles files, no path twice
Vaults ==
    {v \in UNION {[1..n -> SampleFiles] : n \in 0..MaxFiles} :
        \A i, j \in 1..Len(v) : i # j => v[i].path # v[j].path}

DefaultSettings ==
    [diaryFolder |-> DiaryFolder, dateFormat |-> IsoDateFormat,
     useOpenAI |-> FALSE, openAIApiKey |-> FALSE, useOllama |-> FALSE,
     maxKeywords |-> 5, includeCharts |-> TRUE]

\* the settings loadSettings may find: openAIApiKey tells whether a key is set
SampleSettings ==
    {[DefaultSettings EXCEPT !.useOpenAI = ai[1], !.openAIApiKey = ai[1],
                             !.useOllama = ai[2], !.includeCharts = charts] :
        ai \in BOOLEAN \X BOOLEAN, charts \in BOOLEAN}

January == [startDate |-> <<"2", "0", "2", "4", "-", "0", "1", "-", "0", "1">>,
            endDate |-> <<"2", "0", "2", "4", "-", "0", "1", "-", "3", "1">>]

\* what the date inputs of DateRangeModal hold at its submit
SampleRanges == {NoRange, January}

\* what complete() may answer to the prompt of a sub-operation
SampleResponses(op) ==
    CASE op = "kw" -> {<<"a", "b", ",", " ", "c">>}
      [] op = "mood" -> {<<"4">>, <<"x">>}
      [] op = "act" -> {<<"p", ",", "p">>}
      [] op = "summary" -> {<<"s">>}

NoModal == [kind |-> "none", entries |-> <<>>]
NoBuild == [diaries |-> <<>>, analyses |-> <<>>, threw |-> FALSE, entries |-> <<>>]

\* an optional Date argument: not given, or the Date date
NoDate == [has |-> FALSE, date |-> [y |-> 0, m |-> 0, d |-> 0, ms |-> 0]]
SomeDate(date) == [has |-> TRUE, date |-> date]

NoStats ==
    [totalEntries |-> 0, averageMood |-> 0, moodDistribution |-> <<>>,
     topKeywords |-> <<>>, topActivities |-> <<>>, entriesPerMonth |-> <<>>]

\* no method of the timeline called yet
NoQuery ==
    [kind |-> "none", startDate |-> NoDate, endDate |-> NoDate, keyword |-> <<>>,
     result |-> <<>>, stats |-> NoStats, json |-> <<>>]

\* saveSettings not called yet
NoSaves == [waiting |-> 0, made |-> 0]

\* complete() not called yet
NoCompletion ==
    [svc |-> "none", outcome |-> [kind |-> "none", has |-> FALSE, text |-> <<>>],
     threw |-> FALSE, error |-> "none", has |-> FALSE, value |-> <<>>]

World == [plugin |-> plugin, cmd |-> cmd, calls |-> calls, notices |-> notices,
          modal |-> modal, nextId |-> nextId, emitted |-> emitted]

Becomes(w) ==
    /\ plugin' = w.plugin
    /\ cmd' = w.cmd
    /\ calls' = w.calls
    /\ notices' = w.notices
    /\ modal' = w.modal
    /\ nextId' = w.nextId
    /\ emitted' = w.emitted

Init ==
    /\ plugin \in {initializeServices(st) : st \in SampleSettings}
    /\ vault \in Vaults
    /\ cmd = IdleCmd
    /\ calls = <<>>
    /\ notices = <<>>
    /\ modal = NoModal
    /\ created = <<>>
    /\ nextId = 0
    /\ emitted = <<>>
    /\ build = NoBuild
    /\ query = NoQuery
    /\ completion = NoCompletion
    /\ saves = NoSaves

\* the user runs one of the batch commands
RunBatch ==
    /\ cmd.pc = "idle"
    /\ \E name \in BatchCommands :
         \E range \in IF name = "analyzeDiaryRange" THEN SampleRanges ELSE {NoRange} :
            Becomes(StartBatch(World, name, range, vault))
    /\ UNCHANGED <<vault, created, build, query, completion, saves>>

\* the user runs analyzeCurrentDiary on a file of the vault
RunCurrent ==
    /\ cmd.pc = "idle"
    /\ \E f \in 1..Len(vault) :
         cmd' = [IdleCmd EXCEPT !.name = "analyzeCurrentDiary", !.pc = "parsing",
                                !.parser = plugin.parser, !.files = <<vault[f]>>, !.i = 1]
    /\ UNCHANGED <<plugin, vault, calls, notices, modal, created, nextId, emitted, build,
                   query, completion, saves>>

\* the vault.read a command waits for settles
ReadSettles ==
    /\ cmd.pc = "parsing"
    /\ Becomes(IF cmd.name = "analyzeCurrentDiary" THEN CurrentStep(World)
               ELSE ParseStep(World))
    /\ UNCHANGED <<vault, created, build, query, completion, saves>>

\* complete() of the sub-operation op of call k resolves with response
BackendAnswers(k, op, response) ==
    /\ SubOp(calls[k], op).st = "pending"
    /\ Becomes(Settle([World EXCEPT !.calls[k] = Answered(calls[k], op, response)]))
    /\ UNCHANGED <<vault, created, build, query, completion, saves>>

\* complete() of the sub-operation op of call k throws
BackendThrows(k, op) ==
    /\ SubOp(calls[k], op).st = "pending"
    /\ Becomes(Settle([World EXCEPT !.calls[k] = Thrown(calls[k], op)]))
    /\ UNCHANGED <<vault, created, build, query, completion, saves>>

\* the vault.create of generateTimeline or exportAnalysisReport resolves
CreateResolves ==
    /\ cmd.pc = "creating"
    /\ created' = Append(created, [path |-> cmd.path, entries |-> cmd.entries])
    /\ cmd' = [cmd EXCEPT !.pc = "done"]
    /\ notices' = Append(notices, Notice("done", cmd.name, "none"))
    /\ UNCHANGED <<plugin, vault, calls, modal, nextId, emitted, build, query, completion, saves>>

\* that vault.create rejects (the file exists)
CreateRejects ==
    /\ cmd.pc = "creating"
    /\ Becomes(Catch(World, "CreateFailure"))
    /\ UNCHANGED <<vault, created, build, query, completion, saves>>

Next ==
    \/ RunBatch
    \/ RunCurrent
    \/ ReadSettles
    \/ \E k \in 1..Len(calls), op \in SubOps :
         \E response \in SampleResponses(op) : BackendAnswers(k, op, response)
    \/ \E k \in 1..Len(calls), op \in SubOps : BackendThrows(k, op)
    \/ CreateResolves
    \/ CreateRejects

Spec == Init /\ [][Next]_vars

-----------------------------------------------------------------------------
(* generateTimelineData called directly, again and again                   *)

MaxEntries == 2
MaxIds == 4

\* "# " and one more space: a title line with nothing after the white space
BlankTitleText == <<"#", " ", " ">>

TimelineFiles ==
    {File(DiaryFolder, <<"2", "0", "2", "4", "-", "0", "1", "-", "1", "5">>, MdExtension, TRUE, PlainText),
     File(DiaryFolder, <<"n">>, MdExtension, TRUE, MarkedText),
     File(DiaryFolder, <<"b">>, MdExtension, TRUE, BlankTitleText)}

DefaultPlugin == initializeServices(DefaultSettings)

\* the records parseDiaryContent makes of those files
SampleDiaries == {parseDiaryContent(DefaultPlugin.parser, f) : f \in TimelineFiles}

\* the results analyze returns for the records with a title
SampleAnalyses ==
    {analyze(DefaultPlugin.analyzer, diary).result :
        diary \in {d \in SampleDiaries : d.metadata.hasTitle}}

\* the sequences over S of length at most n
Lists(S, n) == UNION {[1..k -> S] : k \in 0..n}

InitTimeline ==
    /\ plugin = DefaultPlugin
    /\ vault = <<>>
    /\ cmd = IdleCmd
    /\ calls = <<>>
    /\ notices = <<>>
    /\ modal = NoModal
    /\ created = <<>>
    /\ nextId = 0
    /\ emitted = <<>>
    /\ build = NoBuild
    /\ query = NoQuery
    /\ completion = NoCompletion
    /\ saves = NoSaves

\* the outcome built of generateTimelineData(diaries, analyses) is recorded
Record(diaries, analyses, built) ==
    /\ build' = [diaries |-> diaries, analyses |-> analyses,
                 threw |-> built.threw, entries |-> built.entries]
    /\ nextId' = nextId + Len(built.entries)
    /\ emitted' = emitted \o Ids(built.entries)

\* a caller runs this.timeline.generateTimelineData(diaries, analyses)
Build ==
    /\ \E diaries \in Lists(SampleDiaries, MaxEntries),
          analyses \in Lists(SampleAnalyses, MaxEntries) :
            /\ nextId + Len(diaries) <= MaxIds
            /\ Record(diaries, analyses, generateTimelineData(diaries, analyses, nextId))
    /\ UNCHANGED <<plugin, vault, cmd, calls, notices, modal, created, query, completion, saves>>

NextTimeline == Build

SpecTimeline == InitTimeline /\ [][NextTimeline]_vars

-----------------------------------------------------------------------------
(* analyzeCurrentDiary on one file, over many texts and backend answers    *)

MaxParts == 3
MaxResponse == 2

\* xin qing : 5, xin qing cn_colon 0, a digit, a positive and a negative word
MoodFragments ==
    {<<"xin", "qing", ":", "5">>, <<"xin", "qing", "cn_colon", "0">>, <<"5">>,
     <<"kai", "xin">>, <<"nan", "guo">>}

RECURSIVE Flatten(_)
Flatten(parts) == IF parts = <<>> THEN <<>> ELSE Head(parts) \o Flatten(Tail(parts))

MoodTexts ==
    {Flatten(parts) : parts \in UNION {[1..k -> MoodFragments] : k \in 1..MaxParts}}

ResponseChars == {"5", "0", "x", "-"}

\* what complete() may answer to the mood prompt
MoodResponses == Lists(ResponseChars, MaxResponse)

WideResponses(op) == IF op = "mood" THEN MoodResponses ELSE SampleResponses(op)

\* no backend, OpenAI, Ollama
ModeSettings ==
    {DefaultSettings,
     [DefaultSettings EXCEPT !.useOpenAI = TRUE, !.openAIApiKey = TRUE],
     [DefaultSettings EXCEPT !.useOllama = TRUE]}

InitAnalyze ==
    /\ plugin \in {initializeServices(st) : st \in ModeSettings}
    /\ vault \in {<<File(DiaryFolder, <<"n">>, MdExtension, TRUE, text)>> : text \in MoodTexts}
    /\ cmd = IdleCmd
    /\ calls = <<>>
    /\ notices = <<>>
    /\ modal = NoModal
    /\ created = <<>>
    /\ nextId = 0
    /\ emitted = <<>>
    /\ build = NoBuild
    /\ query = NoQuery
    /\ completion = NoCompletion
    /\ saves = NoSaves

NextAnalyze ==
    \/ RunCurrent
    \/ ReadSettles
    \/ \E k \in 1..Len(calls), op \in SubOps :
         \E response \in WideResponses(op) : BackendAnswers(k, op, response)
    \/ \E k \in 1..Len(calls), op \in SubOps : BackendThrows(k, op)

SpecAnalyze == InitAnalyze /\ [][NextAnalyze]_vars

-----------------------------------------------------------------------------
(* analyzeCurrentDiary on one file, over texts of several words and        *)
(* sentences and over backend answers of several items                     *)

MaxTokens == 4
MaxItems == 3

\* qu a, qu b, zuo a: words of two characters that start with an activity
\* marker; x: a word of one character
ExtractTokens == {<<"qu", "a">>, <<"qu", "b">>, <<"zuo", "a">>, <<"x">>}

\* Array.prototype.join
RECURSIVE Join(_, _)
Join(parts, sep) ==
    IF parts = <<>> THEN <<>>
    ELSE IF Len(parts) = 1 THEN parts[1]
    ELSE parts[1] \o sep \o Join(Tail(parts), sep)

\* texts of 1 to n words, each the end of a sentence
ExtractTexts(n) ==
    {Join(parts, <<"cn_period">>) :
        parts \in UNION {[1..k -> ExtractTokens] : k \in 1..n}}

ResponseItems == {<<"p">>, <<" ", "q">>}

\* what complete() may answer to the keyword and the activity prompt: at
\* most MaxItems items with commas between them
ItemResponses == {Join(items, <<",">>) : items \in Lists(ResponseItems, MaxItems)}

ExtractResponses(op) ==
    IF op \in {"kw", "act"} THEN ItemResponses ELSE SampleResponses(op)

\* values of the maxKeywords slider
KeywordLimits == {1, 2}

ExtractSettings ==
    {[st EXCEPT !.maxKeywords = n] : st \in ModeSettings, n \in KeywordLimits}

\* the backend answers whatever the text is: with a backend the texts have
\* one word
InitExtract ==
    /\ \E st \in ExtractSettings :
         /\ plugin = initializeServices(st)
         /\ vault \in {<<File(DiaryFolder, <<"n">>, MdExtension, TRUE, text)>> :
                          text \in ExtractTexts(IF st.useOpenAI \/ st.useOllama
                                                  THEN 1 ELSE MaxTokens)}
    /\ cmd = IdleCmd
    /\ calls = <<>>
    /\ notices = <<>>
    /\ modal = NoModal
    /\ created = <<>>
    /\ nextId = 0
    /\ emitted = <<>>
    /\ build = NoBuild
    /\ query = NoQuery
    /\ completion = NoCompletion
    /\ saves = NoSaves

NextExtract ==
    \/ RunCurrent
    \/ ReadSettles
    \/ \E k \in 1..Len(calls), op \in SubOps :
         \E response \in ExtractResponses(op) : BackendAnswers(k, op, response)
    \/ \E k \in 1..Len(calls), op \in SubOps : BackendThrows(k, op)

SpecExtract == InitExtract /\ [][NextExtract]_vars

-----------------------------------------------------------------------------
(* analyzeCurrentDiary on one file, over date formats, file names and      *)
(* contents with and without dates                                         *)

DotDateFormat == <<"YYYY", ".", "MM", ".", "DD">>
CompactDateFormat == <<"YYYY", "MM", "DD">>

\* values of the dateFormat setting
DateFormats == {IsoDateFormat, DotDateFormat, CompactDateFormat}

\* calendar days, and the 29th of February of a year that has none
SampleDays ==
    {[y |-> 2024, m |-> 1, d |-> 15, ms |-> 0], [y |-> 2024, m |-> 2, d |-> 29, ms |-> 0],
     [y |-> 2023, m |-> 2, d |-> 29, ms |-> 0], [y |-> 2023, m |-> 12, d |-> 31, ms |-> 0]}

\* moment's format() of one token
FormatToken(date, token) ==
    IF token = "YYYY" THEN PadStart(NumToStr(date.y), 4)
    ELSE IF token = "MM" THEN PadStart(NumToStr(date.m), 2)
    ELSE IF token = "DD" THEN PadStart(NumToStr(date.d), 2)
    ELSE <<token>>

\* the name a daily note of the day date has under format
RECURSIVE FormatDate(_, _)
FormatDate(date, format) ==
    IF format = <<>> THEN <<>>
    ELSE FormatToken(date, Head(format)) \o FormatDate(date, Tail(format))

\* names of files, without the extension: daily notes, a note that is not
\* one, and a note with a prefix before a date
DateNames ==
    {FormatDate(day, format) : day \in SampleDays, format \in DateFormats}
        \cup {<<"n">>, <<"a", ".">> \o FormatDate([y |-> 2024, m |-> 1, d |-> 15], IsoDateFormat)}

\* contents: no date, a date with - and with /, a date that is none, and a
\* date that is none before one that is
DateBodies ==
    {<<"x">>,
     <<"x", " ", "2", "0", "2", "4", "-", "0", "3", "-", "0", "5">>,
     <<"2", "0", "2", "4", "/", "0", "3", "/", "0", "5", " ", "x">>,
     <<"2", "0", "2", "4", "-", "1", "3", "-", "4", "5">>,
     <<"2", "0", "2", "4", "-", "1", "3", "-", "4", "5", " ",
       "2", "0", "2", "4", "-", "0", "3", "-", "0", "5">>}

InitDates ==
    /\ plugin \in {initializeServices([DefaultSettings EXCEPT !.dateFormat = format]) :
                      format \in DateFormats}
    /\ vault \in {<<File(DiaryFolder, name, MdExtension, TRUE, body)>> :
                      name \in DateNames, body \in DateBodies}
    /\ cmd = IdleCmd
    /\ calls = <<>>
    /\ notices = <<>>
    /\ modal = NoModal
    /\ created = <<>>
    /\ nextId = 0
    /\ emitted = <<>>
    /\ build = NoBuild
    /\ query = NoQuery
    /\ completion = NoCompletion
    /\ saves = NoSaves

NextDates ==
    \/ RunCurrent
    \/ ReadSettles

SpecDates == InitDates /\ [][NextDates]_vars

-----------------------------------------------------------------------------
(* TimelineGenerator: export.  The JSON text of a list of entries is kept   *)
(* as the list of its objects, each the record of the texts of its values:  *)
(* a string between quotes with its escapes, a number in digits, an array   *)
(* as the sequence of the texts of its elements.                            *)

\* JSON.stringify of one character of a string
EscapeChar(c) ==
    CASE c = "\"" -> <<"\\", "\"">>
      [] c = "\\" -> <<"\\", "\\">>
      [] c = "\n" -> <<"\\", "n">>
      [] OTHER -> <<c>>

\* a variant of QuoteString that escapes nothing
QuoteStringRaw(s) == <<"\"">> \o s \o <<"\"">>

\* JSON.stringify of a string
QuoteString(s) ==
    <<"\"">> \o Flatten([i \in 1..Len(s) |-> EscapeChar(s[i])]) \o <<"\"">>

\* JSON.parse of the inside of a string text
RECURSIVE Unescape(_)
Unescape(s) ==
    IF s = <<>> THEN <<>>
    ELSE IF Head(s) = "\\" /\ Len(s) >= 2
      THEN <<IF s[2] = "n" THEN "\n" ELSE s[2]>> \o Unescape(Drop(s, 2))
      ELSE <<Head(s)>> \o Unescape(Tail(s))

\* JSON.parse of a string text
UnquoteString(text) == Unescape(SubSeq(text, 2, Len(text) - 1))

\* Date.prototype.toISOString of a year of four digits, the local time zone
\* being UTC
toISOString(date) ==
    IsoDay(date) \o <<"T">> \o PadStart(NumToStr(date.ms \div 3600000), 2)
        \o <<":">> \o PadStart(NumToStr((date.ms \div 60000) % 60), 2)
        \o <<":">> \o PadStart(NumToStr((date.ms \div 1000) % 60), 2)
        \o <<".">> \o PadStart(NumToStr(date.ms % 1000), 3) \o <<"Z">>

\* new Date(text) of a text of toISOString
DateOfISOString(text) ==
    [y |-> ToNumber(SubSeq(text, 1, 4), 10, 0),
     m |-> ToNumber(SubSeq(text, 6, 7), 10, 0),
     d |-> ToNumber(SubSeq(text, 9, 10), 10, 0),
     ms |-> (ToNumber(SubSeq(text, 12, 13), 10, 0) * 3600000)
              + (ToNumber(SubSeq(text, 15, 16), 10, 0) * 60000)
              + (ToNumber(SubSeq(text, 18, 19), 10, 0) * 1000)
              + ToNumber(SubSeq(text, 21, 23), 10, 0)]

\* the characters of the id that uuidv4 returned at its k-th call
IdChars(k) == <<"i", "d", "-">> \o NumToStr(k)

\* JSON.stringify of one entry: its own properties in their order, the
\* date by Date.prototype.toJSON
StringifyEntry(entry) ==
    [id |-> QuoteString(IdChars(entry.id)),
     date |-> QuoteString(toISOString(entry.date)),
     title |-> QuoteString(entry.title),
     summary |-> QuoteString(entry.summary),
     keywords |-> [i \in 1..Len(entry.keywords) |-> QuoteString(entry.keywords[i])],
     moodScore |-> NumToStr(entry.moodScore),
     activities |-> [i \in 1..Len(entry.activities) |-> QuoteString(entry.activities[i])]]

\* exportTimelineJSON: JSON.stringify(entries, null, 2)
exportTimelineJSON(entries) == [i \in 1..Len(entries) |-> StringifyEntry(entries[i])]

\* JSON.parse of one object of the text: the date stays the string it is
ParseEntry(object) ==
    [id |-> UnquoteString(object.id),
     date |-> UnquoteString(object.date),
     title |-> UnquoteString(object.title),
     summary |-> UnquoteString(object.summary),
     keywords |-> [i \in 1..Len(object.keywords) |-> UnquoteString(object.keywords[i])],
     moodScore |-> ToNumber(object.moodScore, 10, 0),
     activities |-> [i \in 1..Len(object.activities) |->
                       UnquoteString(object.activities[i])]]

\* JSON.parse of the text of exportTimelineJSON
JSONParse(json) == [i \in 1..Len(json) |-> ParseEntry(json[i])]

-----------------------------------------------------------------------------
(* The filter, search, statistics and export methods of the timeline, on    *)
(* the entries of a generateTimelineData call                              *)

MaxQueryEntries == 3

FirstOfJanuary == [y |-> 2024, m |-> 1, d |-> 1, ms |-> 0]
LastOfJanuary == [y |-> 2024, m |-> 1, d |-> 31, ms |-> 0]

\* a file of the diary folder named after the day date
DayFile(date, content) ==
    File(DiaryFolder, FormatDate(date, IsoDateFormat), MdExtension, TRUE, content)

\* records and their analysis results, the keywords gong zuo and xue xi
\* among them: a record of the first of January; one of the last, with an
\* activity met twice; one of the first of February, titled Ab, with six
\* keywords; one without a date in its name, so of the current time, with
\* six other keywords; one more of the current time with a mood of 7 and a
\* summary of a quote, a backslash, the letter n and a line feed
QueryPairs ==
    {<<parseDiaryContent(DefaultPlugin.parser, DayFile(FirstOfJanuary, <<"x">>)),
       [keywords |-> << <<"gong", "zuo">>, <<"xue", "xi">> >>, moodScore |-> 4,
        summary |-> <<"A", "b">>, activities |-> << <<"c">> >>] >>,
     <<parseDiaryContent(DefaultPlugin.parser, DayFile(LastOfJanuary, <<"x">>)),
       [keywords |-> << <<"xue", "xi">>, <<"gong", "zuo">>, <<"a", "b">> >>, moodScore |-> 2,
        summary |-> <<"x">>, activities |-> << <<"A", "B">>, <<"c">>, <<"c">> >>] >>,
     <<parseDiaryContent(DefaultPlugin.parser,
                         DayFile([y |-> 2024, m |-> 2, d |-> 1], <<"#", " ", "A", "b">>)),
       [keywords |-> << <<"a">>, <<"b">>, <<"c">>, <<"d">>, <<"e">>, <<"f">> >>,
        moodScore |-> 3, summary |-> <<>>, activities |-> <<>>] >>,
     <<parseDiaryContent(DefaultPlugin.parser,
                         File(DiaryFolder, <<"n">>, MdExtension, TRUE, <<"x">>)),
       [keywords |-> << <<"g">>, <<"h">>, <<"i">>, <<"j">>, <<"k">>, <<"l">> >>,
        moodScore |-> 5, summary |-> <<"g">>, activities |-> << <<"g">> >>] >>,
     <<parseDiaryContent(DefaultPlugin.parser,
                         File(DiaryFolder, <<"m">>, MdExtension, TRUE, <<"x">>)),
       [keywords |-> <<>>, moodScore |-> 7, summary |-> <<"\"", "\\", "n", "\n">>,
        activities |-> <<>>] >>}

\* the Date arguments of a filter call
QueryDates == {NoDate, SomeDate(FirstOfJanuary), SomeDate(LastOfJanuary)}

\* the keyword arguments of a search call
QueryKeywords == {<<>>, <<"b">>, <<"A", "B">>, <<"z">>, <<"xue">>}

\* generateTimelineData has returned the entries of at most MaxQueryEntries
\* records and their results
InitQuery ==
    /\ plugin = DefaultPlugin
    /\ vault = <<>>
    /\ cmd = IdleCmd
    /\ calls = <<>>
    /\ notices = <<>>
    /\ modal = NoModal
    /\ created = <<>>
    /\ \E pairs \in Lists(QueryPairs, MaxQueryEntries) :
         LET diaries == [i \in 1..Len(pairs) |-> pairs[i][1]]
             analyses == [i \in 1..Len(pairs) |-> pairs[i][2]]
             built == generateTimelineData(diaries, analyses, 0)
         IN  /\ build = [diaries |-> diaries, analyses |-> analyses,
                         threw |-> built.threw, entries |-> built.entries]
             /\ nextId = Len(built.entries)
             /\ emitted = Ids(built.entries)
    /\ query = NoQuery
    /\ completion = NoCompletion
    /\ saves = NoSaves

\* a caller runs this.timeline.filterEntriesByDateRange on those entries
Filter ==
    /\ \E startDate \in QueryDates, endDate \in QueryDates :
         query' = [NoQuery EXCEPT
                     !.kind = "filter", !.startDate = startDate, !.endDate = endDate,
                     !.result = filterEntriesByDateRange(build.entries, startDate, endDate)]
    /\ UNCHANGED <<plugin, vault, cmd, calls, notices, modal, created, nextId, emitted, build,
                   completion, saves>>

\* a caller runs this.timeline.searchEntriesByKeyword on those entries
Search ==
    /\ \E keyword \in QueryKeywords :
         query' = [NoQuery EXCEPT
                     !.kind = "search", !.keyword = keyword,
                     !.result = searchEntriesByKeyword(build.entries, keyword)]
    /\ UNCHANGED <<plugin, vault, cmd, calls, notices, modal, created, nextId, emitted, build,
                   completion, saves>>

\* a caller runs this.timeline.generateTimelineStats on those entries
Stats ==
    /\ query' = [NoQuery EXCEPT !.kind = "stats",
                                !.stats = generateTimelineStats(build.entries)]
    /\ UNCHANGED <<plugin, vault, cmd, calls, notices, modal, created, nextId, emitted, build,
                   completion, saves>>

\* a caller runs this.timeline.exportTimelineJSON on those entries
Export ==
    /\ query' = [NoQuery EXCEPT !.kind = "export",
                                !.json = exportTimelineJSON(build.entries)]
    /\ UNCHANGED <<plugin, vault, cmd, calls, notices, modal, created, nextId, emitted, build,
                   completion, saves>>

NextQuery ==
    \/ Filter
    \/ Search
    \/ Stats
    \/ Export

SpecQuery == InitQuery /\ [][NextQuery]_vars

-----------------------------------------------------------------------------
(* OpenAIService and OllamaService: complete(prompt).  What the network     *)
(* call does is an outcome [kind, has, text]: "unreachable" when the call   *)
(* cannot complete, "status" when the service answers with a non-success    *)
(* response, "answer" when it answers with a success response, whose text   *)
(* field is there (has) or not.                                             *)

Unreachable == [kind |-> "unreachable", has |-> FALSE, text |-> <<>>]
NonSuccess == [kind |-> "status", has |-> FALSE, text |-> <<>>]
Answer(has, text) == [kind |-> "answer", has |-> has, text |-> text]

\* complete() returned value, or undefined when has is false
Returned(svc, outcome, has, value) ==
    [svc |-> svc, outcome |-> outcome, threw |-> FALSE, error |-> "none",
     has |-> has, value |-> value]

\* complete() threw new Error(message)
Threw(svc, outcome, message) ==
    [svc |-> svc, outcome |-> outcome, threw |-> TRUE, error |-> message,
     has |-> FALSE, value |-> <<>>]

\* OpenAIService.complete: chat.completions.create rejects on both failures,
\* the catch block logs and throws one Error; content || '' otherwise
OpenAIComplete(outcome) ==
    IF outcome.kind \in {"unreachable", "status"}
      THEN Threw("openai", outcome, "Failed to generate completion with OpenAI")
    ELSE Returned("openai", outcome, TRUE, IF outcome.has THEN outcome.text ELSE <<>>)

\* OllamaService.complete: fetch rejects, or !response.ok throws inside the
\* try block, and the catch block logs and throws one Error; data.response
\* otherwise
OllamaComplete(outcome) ==
    IF outcome.kind \in {"unreachable", "status"}
      THEN Threw("ollama", outcome, "Failed to generate completion with Ollama")
    ELSE Returned("ollama", outcome, outcome.has, outcome.text)

\* complete() of the service svc
ServiceComplete(svc, outcome) ==
    IF svc = "openai" THEN OpenAIComplete(outcome) ELSE OllamaComplete(outcome)

\* the other way a network call fails
OtherFailure(outcome) == IF outcome.kind = "unreachable" THEN NonSuccess ELSE Unreachable

\* the texts of a success response
AnswerTexts == Lists({"5", "0", "x", "s", ",", " ", "-"}, MaxResponse)

\* what the network call of complete() may do
Outcomes ==
    {Unreachable, NonSuccess, Answer(FALSE, <<>>)} \cup {Answer(TRUE, text) : text \in AnswerTexts}

InitBackend ==
    /\ plugin = DefaultPlugin
    /\ vault = <<>>
    /\ cmd = IdleCmd
    /\ calls = <<>>
    /\ notices = <<>>
    /\ modal = NoModal
    /\ created = <<>>
    /\ nextId = 0
    /\ emitted = <<>>
    /\ build = NoBuild
    /\ query = NoQuery
    /\ completion = NoCompletion
    /\ saves = NoSaves

\* a caller runs complete(prompt) of a service and the network call settles
Complete ==
    /\ \E svc \in {"openai", "ollama"}, outcome \in Outcomes :
         completion' = ServiceComplete(svc, outcome)
    /\ UNCHANGED <<plugin, vault, cmd, calls, notices, modal, created, nextId, emitted, build,
                   query, saves>>

NextBackend == Complete

SpecBackend == InitBackend /\ [][NextBackend]_vars

-----------------------------------------------------------------------------
(* analyzeCurrentDiary on one file with a backend, each complete() of a     *)
(* sub-operation settling with an outcome of the network call               *)

\* what a sub-operation makes of the outcome done of its complete()
Completed(call, op, done) ==
    IF done.threw THEN Thrown(call, op) ELSE Answered(call, op, done.value)

\* texts of a success response to the mood prompt: none, in range, below,
\* above, no number, a number with text around it, a negative number, a
\* hexadecimal number
MoodAnswerTexts ==
    {<<>>, <<"4">>, <<"0">>, <<"6">>, <<"5", "5">>, <<"x">>, <<" ", "4", "x">>,
     <<"-", "3">>, <<"x", "4">>, <<"0", "x", "5">>}

\* texts of a success response to the keyword and the activity prompt: none,
\* white space, an item, items with nothing between two commas
ItemAnswerTexts ==
    {<<>>, <<" ">>, <<"p">>, <<"p", ",", ",", "q">>}

\* the outcomes drawn for the complete() of a sub-operation
ServiceOutcomes(op) ==
    {Unreachable, NonSuccess} \cup
    (CASE op = "mood" -> {Answer(TRUE, text) : text \in MoodAnswerTexts}
                           \cup {Answer(FALSE, <<>>)}
       [] op \in {"kw", "act"} -> {Answer(TRUE, text) : text \in ItemAnswerTexts}
                                    \cup {Answer(FALSE, <<>>)}
       [] op = "summary" -> {Answer(TRUE, <<"s">>)})

\* a text without a mood value, one with a value out of range, one with a
\* value in range
ServiceTexts ==
    {<<"kai", "xin">>, <<"xin", "qing", ":", "0">>, <<"xin", "qing", ":", "5">>}

\* OpenAI, Ollama, both
BackendSettings ==
    {[DefaultSettings EXCEPT !.useOpenAI = TRUE, !.openAIApiKey = TRUE],
     [DefaultSettings EXCEPT !.useOllama = TRUE],
     [DefaultSettings EXCEPT !.useOpenAI = TRUE, !.openAIApiKey = TRUE, !.useOllama = TRUE]}

InitService ==
    /\ plugin \in {initializeServices(st) : st \in BackendSettings}
    /\ vault \in {<<File(DiaryFolder, <<"n">>, MdExtension, TRUE, text)>> :
                     text \in ServiceTexts}
    /\ cmd = IdleCmd
    /\ calls = <<>>
    /\ notices = <<>>
    /\ modal = NoModal
    /\ created = <<>>
    /\ nextId = 0
    /\ emitted = <<>>
    /\ build = NoBuild
    /\ query = NoQuery
    /\ completion = NoCompletion
    /\ saves = NoSaves

\* the network call of complete() of the sub-operation op of call k settles
\* with outcome; a success response of Ollama carries its response field
BackendCompletes(k, op, outcome) ==
    /\ SubOp(calls[k], op).st = "pending"
    /\ LET done == ServiceComplete(SubOp(calls[k], op).svc, outcome)
       IN  /\ done.threw \/ done.has
           /\ completion' = done
           /\ Becomes(Settle([World EXCEPT !.calls[k] = Completed(calls[k], op, done)]))
    /\ UNCHANGED <<vault, created, build, query, saves>>

NextService ==
    \/ RunCurrent
    \/ ReadSettles
    \/ \E k \in 1..Len(calls), op \in SubOps :
         \E outcome \in ServiceOutcomes(op) : BackendCompletes(k, op, outcome)

SpecService == InitService /\ [][NextService]_vars

-----------------------------------------------------------------------------
(* The plugin with its settings tab: a handler of the tab writes a field    *)
(* of the settings object the plugin holds and calls saveSettings, which    *)
(* waits for saveData and then runs initializeServices.                     *)

MaxChanges == 1

\* the onChange handlers of the tab up to the await of saveData
Changed(st) ==
    /\ saves.made < MaxChanges
    /\ st # plugin.settings
    /\ plugin' = [plugin EXCEPT !.settings = st]
    /\ saves' = [waiting |-> saves.waiting + 1, made |-> saves.made + 1]
    /\ UNCHANGED <<vault, cmd, calls, notices, modal, created, nextId, emitted, build, query,
                   completion>>

\* the user edits the diary folder field
ChangeDiaryFolder(value) == Changed([plugin.settings EXCEPT !.diaryFolder = value])

\* the user switches the OpenAI toggle
ChangeUseOpenAI(value) == Changed([plugin.settings EXCEPT !.useOpenAI = value])

\* the user switches the Ollama toggle
ChangeUseOllama(value) == Changed([plugin.settings EXCEPT !.useOllama = value])

\* saveData of a saveSettings call resolves, and initializeServices runs
SaveSettles ==
    /\ saves.waiting > 0
    /\ plugin' = initializeServices(plugin.settings)
    /\ saves' = [saves EXCEPT !.waiting = saves.waiting - 1]
    /\ UNCHANGED <<vault, cmd, calls, notices, modal, created, nextId, emitted, build, query,
                   completion>>

\* a vault with one file in each of two folders
TwoFolderVault ==
    <<File(DiaryFolder, <<"n">>, MdExtension, TRUE, PlainText),
      File(OtherFolder, <<"x">>, MdExtension, TRUE, PlainText)>>

\* the settings of the tab: a key is set, no charts in the report
TabSettings ==
    {[DefaultSettings EXCEPT !.diaryFolder = folder, !.useOpenAI = ai[1],
                             !.openAIApiKey = TRUE, !.useOllama = ai[2],
                             !.includeCharts = FALSE] :
        folder \in {DiaryFolder, OtherFolder}, ai \in BOOLEAN \X BOOLEAN}

InitSettings ==
    /\ plugin \in {initializeServices(st) : st \in TabSettings}
    /\ vault = TwoFolderVault
    /\ cmd = IdleCmd
    /\ calls = <<>>
    /\ notices = <<>>
    /\ modal = NoModal
    /\ created = <<>>
    /\ nextId = 0
    /\ emitted = <<>>
    /\ build = NoBuild
    /\ query = NoQuery
    /\ completion = NoCompletion
    /\ saves = NoSaves

NextSettings ==
    \/ RunBatch
    \/ RunCurrent
    \/ ReadSettles
    \/ \E k \in 1..Len(calls), op \in SubOps :
         \E response \in SampleResponses(op) : BackendAnswers(k, op, response)
    \/ \E k \in 1..Len(calls), op \in SubOps : BackendThrows(k, op)
    \/ CreateResolves
    \/ CreateRejects
    \/ \E value \in {DiaryFolder, OtherFolder} : ChangeDiaryFolder(value)
    \/ \E value \in BOOLEAN : ChangeUseOpenAI(value)
    \/ \E value \in BOOLEAN : ChangeUseOllama(value)
    \/ SaveSettles

SpecSettings == InitSettings /\ [][NextSettings]_vars

-----------------------------------------------------------------------------
(* Properties                                                              *)

ExtractorStates(call) == {call.kw.st, call.mood.st, call.act.st}

SubOpStates(call) == ExtractorStates(call) \cup {call.summary.st}

\* the AnalysisResult analyze assembles from its four sub-operations
Assembled(call) ==
    [keywords |-> call.kw.val, moodScore |-> call.mood.val,
     summary |-> call.summary.val, activities |-> call.act.val]

\* C1: within an analyze call the three extractors are all started before
\* the call waits for any of them; generateSummary starts only when the
\* three have returned; the result is assembled only when generateSummary
\* has returned, from the four values.
AnalyzeStartsThenSummarizes ==
    \A k \in 1..Len(calls) :
        /\ "idle" \notin ExtractorStates(calls[k])
        /\ calls[k].summary.st # "idle" => ExtractorStates(calls[k]) = {"done"}
        /\ calls[k].pc = "awaitAll" => calls[k].summary.st = "idle"
        /\ calls[k].pc = "done" =>
              calls[k].summary.st = "done" /\ calls[k].result = Assembled(calls[k])
        /\ calls[k].pc # "done" => calls[k].result = NoResult

\* an analyze call on a backend has returned its result
BackendCallDone ==
    \E k \in 1..Len(calls) :
        /\ calls[k].pc = "done"
        /\ calls[k].an.openAI \/ calls[k].an.ollama
        /\ calls[k].result.summary # <<>>

\* C2: when the backend call of a sub-operation of an analyze call has
\* failed, the call has failed and returned no result, and the failed
\* sub-operation has no value: the heuristic variant did not stand in.
FailureFailsAnalyze ==
    \A k \in 1..Len(calls) :
        /\ "failed" \in SubOpStates(calls[k]) =>
              calls[k].pc = "failed" /\ calls[k].result = NoResult
        /\ calls[k].kw.st = "failed" => calls[k].kw.val = <<>>
        /\ calls[k].mood.st = "failed" => calls[k].mood.val = 0
        /\ calls[k].act.st = "failed" => calls[k].act.val = <<>>
        /\ calls[k].summary.st = "failed" => calls[k].summary.val = <<>>

\* an analyze call has failed while an extractor of it had a value
FailedWithPartialValues ==
    \E k \in 1..Len(calls) :
        /\ "failed" \in SubOpStates(calls[k])
        /\ "done" \in ExtractorStates(calls[k])

\* one of the analyze calls of the running command has failed
FailedCallOfCmd == \E k \in 1..cmd.n : calls[cmd.first + k].pc = "failed"

\* C3: when an analyze call of a batch command has failed, the command has
\* made no timeline entry, opened no report, written no file, and has ended
\* with one error notice.
FailedBatchYieldsNothing ==
    (cmd.name \in BatchCommands /\ FailedCallOfCmd) =>
        /\ cmd.pc = "error"
        /\ cmd.entries = <<>>
        /\ emitted = <<>>
        /\ modal = NoModal
        /\ created = <<>>
        /\ notices = <<Notice("error", cmd.name, "BackendFailure")>>

\* a batch command of which one analyze call failed and another returned
BatchWithFailedAndDoneCall ==
    /\ cmd.name \in BatchCommands
    /\ \E j, k \in 1..cmd.n :
         calls[cmd.first + j].pc = "failed" /\ calls[cmd.first + k].pc = "done"

\* the records of the files that parse, in the order of the files
RECURSIVE ParsedRecords(_, _)
ParsedRecords(parser, files) ==
    IF files = <<>> THEN <<>>
    ELSE (IF ParseThrows(Head(files)) THEN <<>>
          ELSE <<parseDiaryContent(parser, Head(files))>>)
         \o ParsedRecords(parser, Tail(files))

\* C4: parseMultipleDiaries drops the files whose read or parse fails and
\* goes on: what it holds while it runs and what it returns are the records
\* of the files that parsed, in file order, and it never throws.
IngestionKeepsParsedFiles ==
    cmd.name \in BatchCommands =>
        /\ cmd.pc = "parsing" =>
              cmd.diaryContents = ParsedRecords(cmd.parser, Take(cmd.files, cmd.i - 1))
        /\ cmd.pc \notin {"idle", "parsing"} =>
              cmd.diaryContents = ParsedRecords(cmd.parser, cmd.files)
        /\ \A n \in 1..Len(notices) : notices[n].thrown # "ParseFailure"

\* parseMultipleDiaries has returned after a file that failed and a later
\* one that parsed
IngestedPastFailedFile ==
    /\ cmd.name \in BatchCommands
    /\ cmd.pc \notin {"idle", "parsing"}
    /\ \E i, j \in 1..Len(cmd.files) :
         i < j /\ ParseThrows(cmd.files[i]) /\ ~ParseThrows(cmd.files[j])

\* C5: generateTimelineData throws whenever its two arguments differ in
\* length, and then returns no entry.
MismatchThrows ==
    Len(build.diaries) # Len(build.analyses) =>
        build.threw /\ build.entries = <<>>

\* a call with arguments of different lengths, after one that made entries
MismatchAfterEntries ==
    /\ Len(build.diaries) # Len(build.analyses)
    /\ build.diaries # <<>> /\ build.analyses # <<>>
    /\ emitted # <<>>

\* entry is made of diary and analysis, apart from its title and id
MadeOf(entry, diary, analysis) ==
    /\ entry.date = diary.date
    /\ entry.summary = analysis.summary
    /\ entry.keywords = analysis.keywords
    /\ entry.moodScore = analysis.moodScore
    /\ entry.activities = analysis.activities

\* C6 as stated: for arguments of equal length generateTimelineData returns
\* one entry per index, in order, made of diaries[i] and analyses[i], titled
\* with the metadata title when the metadata has one and with the generated
\* label otherwise; no title is empty.
TitleIsMetadataTitleIfPresent ==
    Len(build.diaries) = Len(build.analyses) =>
        /\ ~build.threw
        /\ Len(build.entries) = Len(build.diaries)
        /\ \A i \in 1..Len(build.entries) :
              /\ MadeOf(build.entries[i], build.diaries[i], build.analyses[i])
              /\ build.entries[i].title =
                    IF build.diaries[i].metadata.hasTitle
                      THEN build.diaries[i].metadata.title
                      ELSE generateTitle(build.diaries[i].date)
              /\ build.entries[i].title # <<>>

\* C6: for arguments of equal length generateTimelineData returns one entry
\* per index, in order, made of diaries[i] and analyses[i], titled with the
\* metadata title when the metadata has one that is not empty and with the
\* generated label otherwise; no title is empty.
TitleIsMetadataTitleIfNotEmpty ==
    Len(build.diaries) = Len(build.analyses) =>
        /\ ~build.threw
        /\ Len(build.entries) = Len(build.diaries)
        /\ \A i \in 1..Len(build.entries) :
              /\ MadeOf(build.entries[i], build.diaries[i], build.analyses[i])
              /\ build.entries[i].title =
                    IF build.diaries[i].metadata.hasTitle
                         /\ build.diaries[i].metadata.title # <<>>
                      THEN build.diaries[i].metadata.title
                      ELSE generateTitle(build.diaries[i].date)
              /\ build.entries[i].title # <<>>

\* entries were made of a record with an empty title and of one with a title
BuiltWithEmptyAndSetTitle ==
    /\ Len(build.entries) = Len(build.diaries)
    /\ \E i, j \in 1..Len(build.entries) :
         /\ build.diaries[i].metadata.hasTitle
         /\ build.diaries[i].metadata.title = <<>>
         /\ build.diaries[j].metadata.hasTitle
         /\ build.diaries[j].metadata.title # <<>>

\* the running batch command has called generateTimelineData
BuilderCalled ==
    /\ cmd.name \in BatchCommands
    /\ \/ cmd.pc = "creating"
       \/ modal.kind = "report"
       \/ created # <<>>
       \/ \E n \in 1..Len(notices) :
            notices[n].thrown \in {"LengthMismatch", "TypeError", "CreateFailure"}

\* C7: in a batch command the i-th analyze call is the one of the i-th
\* record, and what generateTimelineData is given are the records and, index
\* for index, the results of their calls, as many as the records, in
\* whatever order the calls returned; no command ends on the length error.
AnalysesMatchRecords ==
    /\ (cmd.name \in BatchCommands /\ cmd.pc \notin {"idle", "parsing"}) =>
          /\ cmd.n = Len(cmd.records)
          /\ \A i \in 1..cmd.n : calls[cmd.first + i].content = cmd.records[i]
    /\ BuilderCalled =>
          /\ Len(cmd.analyses) = Len(cmd.records)
          /\ \A i \in 1..Len(cmd.analyses) :
                /\ calls[cmd.first + i].pc = "done"
                /\ cmd.analyses[i] = calls[cmd.first + i].result
    /\ \A n \in 1..Len(notices) : notices[n].thrown # "LengthMismatch"

\* generateTimelineData was given two records analysed on a backend, with
\* results that differ
BuiltFromTwoBackendCalls ==
    /\ BuilderCalled
    /\ Len(cmd.analyses) = 2
    /\ cmd.analyses[1] # cmd.analyses[2]
    /\ calls[cmd.first + 1].an.openAI \/ calls[cmd.first + 1].an.ollama

\* C8: no id is given to two of the entries generateTimelineData has
\* returned, in one call or in different calls.
IdsNeverRepeat ==
    \A i, j \in 1..Len(emitted) : i # j => emitted[i] # emitted[j]

\* a call made one entry after an earlier call had made one
BuiltAgain ==
    /\ build.entries # <<>>
    /\ Len(emitted) > Len(build.entries)
    /\ Len(build.diaries) = 1
    /\ Len(emitted) = 2

\* C9: the mood score an analyze call computes and the one of the result it
\* returns are integers from 1 to 5, whether they come from the marker in
\* the text, from the answer of the backend or from the dictionary.
MoodScoreInRange ==
    /\ \A k \in 1..Len(calls) :
          /\ calls[k].mood.st = "done" => calls[k].mood.val \in 1..5
          /\ calls[k].pc = "done" => calls[k].result.moodScore \in 1..5
    /\ \A i \in 1..Len(modal.entries) : modal.entries[i].moodScore \in 1..5

\* a call on a backend returned a result for a text without a marker value
\* in range
BackendMoodReturned ==
    \E k \in 1..Len(calls) :
        /\ calls[k].pc = "done"
        /\ calls[k].an.openAI \/ calls[k].an.ollama
        /\ ~HasExplicitMood(calls[k].content.content)
        /\ moodMatch(calls[k].content.content) # <<>>

\* the metadata of the record of a call holds a mood from 1 to 5
MetadataMoodInRange(call) ==
    call.content.metadata.hasMood /\ call.content.metadata.mood \in 1..5

\* the values from 1 to 5 of the occurrences of the mood marker in text
MarkerValuesInRange(text) ==
    {parseInt(MoodGroup(Drop(text, i + 2))).n :
        i \in {j \in 1..Len(text) : MoodMatchAt(text, j)}} \cap (1..5)

\* C10 as stated: when the metadata of the record holds a mood from 1 to 5,
\* or the text holds the mood marker with a value from 1 to 5, the mood
\* score of analyze is that value, and the backend is not asked for it.
AnyMarkerValueWins ==
    \A k \in 1..Len(calls) :
        (MetadataMoodInRange(calls[k])
            \/ MarkerValuesInRange(calls[k].content.content) # {}) =>
            /\ calls[k].mood.st = "done"
            /\ calls[k].mood.val \in
                  MarkerValuesInRange(calls[k].content.content)
                      \cup {calls[k].content.metadata.mood}
            /\ calls[k].pc = "done" =>
                  calls[k].result.moodScore = calls[k].mood.val

\* C10: the metadata of a record holds the value of the first occurrence of
\* the mood marker in its text; when that value is from 1 to 5 the mood
\* score of analyze is that value, and the backend is not asked for it.
FirstMarkerValueWins ==
    \A k \in 1..Len(calls) :
        /\ MetadataMoodInRange(calls[k]) <=> HasExplicitMood(calls[k].content.content)
        /\ MetadataMoodInRange(calls[k]) =>
              /\ calls[k].mood = Done(calls[k].content.metadata.mood)
              /\ calls[k].pc = "done" =>
                    calls[k].result.moodScore = calls[k].content.metadata.mood

\* a call on a backend returned the marker value of its text
MarkerValueReturned ==
    \E k \in 1..Len(calls) :
        /\ calls[k].pc = "done"
        /\ calls[k].an.openAI \/ calls[k].an.ollama
        /\ MetadataMoodInRange(calls[k])
        /\ calls[k].result.moodScore = 5

\* the number of places of text where a word of words begins
Occurrences(text, words) ==
    Cardinality({p \in (1..Len(text)) \X (1..Len(words)) :
                    StartsAt(text, p[1], words[p[2]])})

\* a call without a backend on a text that holds no mood value from 1 to 5
DictionaryCall(call) ==
    /\ ~call.an.openAI /\ ~call.an.ollama
    /\ ~HasExplicitMood(call.content.content)

\* C11: without a backend and without a marker value, the mood score of a
\* text with P occurrences of positive words and N of negative words is
\* 3 + min(2, P - N) when P > N, 3 - min(2, N - P) when N > P, and 3 when
\* P = N; so 5 for P = 2, N = 0 and 1 for P = 0, N = 3.
DictionaryMoodByCounts ==
    \A k \in 1..Len(calls) :
        DictionaryCall(calls[k]) =>
            LET P == Occurrences(calls[k].content.content, positiveWords)
                N == Occurrences(calls[k].content.content, negativeWords)
            IN  /\ calls[k].mood.st = "done"
                /\ P > N => calls[k].mood.val = 3 + (IF P - N < 2 THEN P - N ELSE 2)
                /\ N > P => calls[k].mood.val = 3 - (IF N - P < 2 THEN N - P ELSE 2)
                /\ P = N => calls[k].mood.val = 3
                /\ (P = 2 /\ N = 0) => calls[k].mood.val = 5
                /\ (P = 0 /\ N = 3) => calls[k].mood.val = 1

\* a text with three negative words and no positive one was scored 1
ScoredThreeNegativeWords ==
    \E k \in 1..Len(calls) :
        /\ DictionaryCall(calls[k])
        /\ Occurrences(calls[k].content.content, positiveWords) = 0
        /\ Occurrences(calls[k].content.content, negativeWords) = 3
        /\ calls[k].pc = "done"
        /\ calls[k].result.moodScore = 1

\* the words of text longer than one character, in the order of the text
LongWords(text) ==
    SelectSeq(SplitWhitespace([i \in 1..Len(text) |->
                                 IF text[i] \in WordChars THEN text[i] ELSE " "]),
              LAMBDA w : Len(w) > 1)

\* how often word stands in words, and where it stands first
CountIn(words, word) == Cardinality({i \in 1..Len(words) : words[i] = word})
FirstIn(words, word) == Leftmost({i \in 1..Len(words) : words[i] = word})

\* a ranks before b: it stands more often, or as often and earlier
RanksBefore(words, a, b) ==
    \/ CountIn(words, a) > CountIn(words, b)
    \/ CountIn(words, a) = CountIn(words, b) /\ FirstIn(words, a) < FirstIn(words, b)

\* keywords are the first limit words of words in that ranking
TopRanked(keywords, words, limit) ==
    LET distinct == {words[i] : i \in 1..Len(words)}
    IN  /\ \A i \in 1..Len(keywords) : keywords[i] \in distinct
        /\ Len(keywords) = Min(limit, Cardinality(distinct))
        /\ \A i, j \in 1..Len(keywords) :
              i < j => RanksBefore(words, keywords[i], keywords[j])
        /\ \A i \in 1..Len(keywords) :
              \A w \in distinct \ {keywords[j] : j \in 1..Len(keywords)} :
                 RanksBefore(words, keywords[i], w)

\* a call without a backend
HeuristicCall(call) == ~call.an.openAI /\ ~call.an.ollama

\* C12: without a backend the keywords are the words longer than one
\* character, ranked by descending number of occurrences, words with equal
\* numbers in the order of their first occurrence, cut to the first
\* maxKeywords.
KeywordsRankedByCount ==
    \A k \in 1..Len(calls) :
        HeuristicCall(calls[k]) =>
            /\ calls[k].kw.st = "done"
            /\ TopRanked(calls[k].kw.val, LongWords(calls[k].content.content),
                         calls[k].an.maxKeywords)

\* words counted {A: 1, B: 3}, A first, with maxKeywords = 1, returned [B]
RankedOneOfTwoWords ==
    \E k \in 1..Len(calls) :
        /\ HeuristicCall(calls[k])
        /\ calls[k].an.maxKeywords = 1
        /\ LongWords(calls[k].content.content) =
              << <<"qu", "a">>, <<"qu", "b">>, <<"qu", "b">>, <<"qu", "b">> >>
        /\ calls[k].pc = "done"
        /\ calls[k].result.keywords = << <<"qu", "b">> >>

\* C13: the keywords an analyze call computes and the ones of the result it
\* returns are at most maxKeywords, without a backend and with one,
\* whatever the backend answers.
KeywordsWithinLimit ==
    \A k \in 1..Len(calls) :
        /\ Len(calls[k].kw.val) <= calls[k].an.maxKeywords
        /\ calls[k].pc = "done" =>
              Len(calls[k].result.keywords) <= calls[k].an.maxKeywords

\* a call on a backend that answered more items than maxKeywords returned
\* the first maxKeywords of them
BackendKeywordsCut ==
    \E k \in 1..Len(calls), response \in ItemResponses :
        /\ ~HeuristicCall(calls[k])
        /\ calls[k].pc = "done"
        /\ Len(Split(response, ",")) > calls[k].an.maxKeywords
        /\ calls[k].result.keywords =
              Take(Map(Trim, Split(response, ",")), calls[k].an.maxKeywords)
        /\ Len(calls[k].result.keywords) = calls[k].an.maxKeywords

\* s holds no element twice
NoDuplicates(s) == \A i, j \in 1..Len(s) : i # j => s[i] # s[j]

\* C14 as stated: the activities an analyze call computes hold no activity
\* twice, without a backend and with one, whatever the backend answers.
ActivitiesHaveNoDuplicates ==
    \A k \in 1..Len(calls) :
        /\ NoDuplicates(calls[k].act.val)
        /\ calls[k].pc = "done" => NoDuplicates(calls[k].result.activities)

\* C15: without a backend an analyze call never waits for a backend and has
\* returned its result as soon as it was made: none of its sub-operations
\* is pending or failed, for every text.
NoBackendNoCall ==
    \A k \in 1..Len(calls) :
        HeuristicCall(calls[k]) =>
            /\ SubOpStates(calls[k]) = {"done"}
            /\ \A op \in SubOps : SubOp(calls[k], op).svc = "none"
            /\ calls[k].pc = "done"
            /\ calls[k].result = Assembled(calls[k])

\* a call without a backend returned on a text of several sentences
HeuristicCallDone ==
    \E k \in 1..Len(calls) :
        /\ HeuristicCall(calls[k])
        /\ calls[k].pc = "done"
        /\ Len(LongWords(calls[k].content.content)) > 1
        /\ calls[k].result.activities # <<>>
        /\ calls[k].result.keywords # <<>>

\* the valid dates among the occurrences of dddd-dd-dd and dddd/dd/dd in
\* content, each read as YYYY-MM-DD
ValidContentDates(content) ==
    {parsed.date : parsed \in
        {p \in {moment(SubSeq(content, i, i + 9), IsoDateFormat) :
                   i \in {j \in 1..Len(content) : DateMatchAt(content, j)}} :
            p.valid}}

\* C16 as stated: the date of a record is the date its file name, without
\* the extension, makes under the configured format when that is a valid
\* date; else a valid date its content holds as YYYY-MM-DD or YYYY/MM/DD
\* when there is one; else the current time.  No read of a file with
\* content ends in an error.
DateByPrecedence ==
    /\ \A k \in 1..Len(calls) :
          LET byName == moment(vault[k].basename, plugin.parser.dateFormat)
              inContent == ValidContentDates(calls[k].content.content)
          IN  IF byName.valid THEN calls[k].content.date = byName.date
              ELSE IF inContent # {} THEN calls[k].content.date \in inContent
              ELSE calls[k].content.date = Now
    /\ notices = <<>>

\* C17 as stated: when the name of a file, without the extension, is a valid
\* day written in the configured format, the date of the record is that
\* day, whatever the format, one with dots between the numbers included.
DateOfMatchingName ==
    \A k \in 1..Len(calls) :
        \A day \in SampleDays :
            (/\ DateFromArray(day.y, day.m, day.d).valid
             /\ vault[k].basename = FormatDate(day, plugin.parser.dateFormat))
                => calls[k].content.date = day

\* a number that grows with the day of a Date
DayNumber(date) == ((date.y * 12 + date.m) * 31) + date.d

\* a is not after b: an earlier day, or the same day and not a later time
NotAfter(a, b) ==
    \/ DayNumber(a) < DayNumber(b)
    \/ DayNumber(a) = DayNumber(b) /\ a.ms <= b.ms

\* the indices of entries whose date lies within the bounds that are given
WithinBounds(entries, startDate, endDate) ==
    {i \in 1..Len(entries) :
        /\ startDate.has => NotAfter(startDate.date, entries[i].date)
        /\ endDate.has => NotAfter(entries[i].date, endDate.date)}

\* sub is the elements of s at the indices at, in the order of s
IsSelection(sub, s, at) ==
    /\ Len(sub) = Cardinality(at)
    /\ \A n \in 1..Len(sub) :
          \E i \in at : Cardinality({j \in at : j <= i}) = n /\ sub[n] = s[i]

\* C18: filterEntriesByDateRange returns, in their order, exactly the
\* entries whose date is not before the start bound and not after the end
\* bound, a bound that is not given excluding nothing; with the bounds
\* 1 and 31 January 2024 an entry of 1 January is kept and one of
\* 1 February is dropped.
FilterKeepsEntriesWithinBounds ==
    query.kind = "filter" =>
        /\ IsSelection(query.result, build.entries,
                       WithinBounds(build.entries, query.startDate, query.endDate))
        /\ (query.startDate = SomeDate(FirstOfJanuary)
               /\ query.endDate = SomeDate(LastOfJanuary)) =>
              \A i \in 1..Len(build.entries) :
                 /\ build.entries[i].date = FirstOfJanuary =>
                       \E n \in 1..Len(query.result) : query.result[n] = build.entries[i]
                 /\ build.entries[i].date = [y |-> 2024, m |-> 2, d |-> 1, ms |-> 0] =>
                       \A n \in 1..Len(query.result) : query.result[n] # build.entries[i]

\* a filter with both bounds kept an entry at each bound and dropped one
\* after the end bound
FilteredAtBothBounds ==
    /\ query.kind = "filter"
    /\ query.startDate = SomeDate(FirstOfJanuary)
    /\ query.endDate = SomeDate(LastOfJanuary)
    /\ Len(build.entries) = 3
    /\ Len(query.result) = 2
    /\ query.result[1].date = LastOfJanuary
    /\ query.result[2].date = FirstOfJanuary

\* a and b are the same character, or the two cases of one letter
SameLetter(a, b) ==
    \/ a = b
    \/ \E i \in 1..Len(UpperCase) : {a, b} = {UpperCase[i], LowerCase[i]}

\* term stands somewhere in s, the case of the letters left aside
HoldsTerm(s, term) ==
    \E i \in 0..Len(s) :
        /\ i + Len(term) <= Len(s)
        /\ \A k \in 1..Len(term) : SameLetter(s[i + k], term[k])

\* the indices of the entries that hold term in a keyword, in the summary
\* or in an activity
HoldingTerm(entries, term) ==
    {i \in 1..Len(entries) :
        \/ \E k \in 1..Len(entries[i].keywords) : HoldsTerm(entries[i].keywords[k], term)
        \/ HoldsTerm(entries[i].summary, term)
        \/ \E a \in 1..Len(entries[i].activities) :
              HoldsTerm(entries[i].activities[a], term)}

\* C19: searchEntriesByKeyword returns, in their order, exactly the entries
\* of which a keyword, the summary or an activity holds the term, the case
\* of the letters left aside; one of the three is enough, and the title does
\* not count.
SearchFindsTermInFields ==
    query.kind = "search" =>
        IsSelection(query.result, build.entries, HoldingTerm(build.entries, query.keyword))

\* a search for AB found an entry by its summary Ab and one by its keyword
\* ab and its activity AB, and not the entry between them that is titled Ab
SearchedInOtherCase ==
    /\ query.kind = "search"
    /\ query.keyword = <<"A", "B">>
    /\ Len(build.entries) = 3
    /\ build.entries[2].title = <<"A", "b">>
    /\ query.result = <<build.entries[1], build.entries[3]>>
    /\ build.entries[1].summary = <<"A", "b">>
    /\ <<"a", "b">> \in {build.entries[3].keywords[k] :
                            k \in 1..Len(build.entries[3].keywords)}

\* the keywords, and the activities, of entries in the order of the entries
KeywordsOf(entries) == Flatten([i \in 1..Len(entries) |-> entries[i].keywords])
ActivitiesOf(entries) == Flatten([i \in 1..Len(entries) |-> entries[i].activities])

\* table lists the first limit keys of keys, ranked by number of occurrences
\* and then by first occurrence, each with that number
IsTopTable(table, keys, limit) ==
    /\ TopRanked([i \in 1..Len(table) |-> table[i][1]], keys, limit)
    /\ \A i \in 1..Len(table) : table[i][2] = CountIn(keys, table[i][1])

\* C20: topKeywords and topActivities of generateTimelineStats list each
\* key once, with the number of its occurrences in all the entries, by
\* descending number, keys of equal numbers in the order they were first
\* met, cut to the first 10.
TopTablesRankedByCount ==
    query.kind = "stats" =>
        /\ IsTopTable(query.stats.topKeywords, KeywordsOf(build.entries), 10)
        /\ IsTopTable(query.stats.topActivities, ActivitiesOf(build.entries), 10)

\* the statistics of entries with twelve keywords, six of them met twice:
\* the table holds those six in the order they were met, then the first
\* four of the others
RankedTwelveKeywords ==
    /\ query.kind = "stats"
    /\ Cardinality({KeywordsOf(build.entries)[i] :
                       i \in 1..Len(KeywordsOf(build.entries))}) = 12
    /\ Len(query.stats.topKeywords) = 10
    /\ query.stats.topKeywords[1] = << <<"a">>, 2 >>
    /\ query.stats.topKeywords[6] = << <<"f">>, 2 >>
    /\ query.stats.topKeywords[7] = << <<"g">>, 1 >>
    /\ query.stats.topKeywords[10] = << <<"j">>, 1 >>

\* the moods of entries are between 1 and 5
MoodsInRange(entries) ==
    \A i \in 1..Len(entries) : entries[i].moodScore \in 1..5

\* the sum of the numbers of the sequence
RECURSIVE SumOf(_)
SumOf(numbers) == IF numbers = <<>> THEN 0 ELSE Head(numbers) + SumOf(Tail(numbers))

\* tenths is a number of tenths nearest to the mean of the numbers
NearestTenth(tenths, numbers) ==
    LET gap == (10 * SumOf(numbers)) - (tenths * Len(numbers))
    IN  /\ 2 * gap <= Len(numbers)
        /\ 2 * gap >= 0 - Len(numbers)

\* C21: averageMood of generateTimelineStats is 0 for no entries and else
\* the mean of the mood scores rounded to one decimal place (here a number
\* of tenths); it is between 1 and 5 when the moods are, and totalEntries
\* is the number of entries.
AverageMoodIsRoundedMean ==
    query.kind = "stats" =>
        LET moods == [i \in 1..Len(build.entries) |-> build.entries[i].moodScore]
        IN  /\ query.stats.totalEntries = Len(build.entries)
            /\ build.entries = <<>> => query.stats.averageMood = 0
            /\ build.entries # <<>> => NearestTenth(query.stats.averageMood, moods)
            /\ build.entries # <<>> /\ MoodsInRange(build.entries) =>
                  query.stats.averageMood \in 10..50

\* the statistics of three entries of moods 4, 2 and 5: the mean 3.666... is
\* given as 3.7
AveragedThreeMoods ==
    /\ query.kind = "stats"
    /\ [i \in 1..Len(build.entries) |-> build.entries[i].moodScore] = <<4, 2, 5>>
    /\ query.stats.averageMood = 37
    /\ query.stats.totalEntries = 3

\* C22: moodDistribution of generateTimelineStats has the keys 1 to 5, the
\* value of each the number of entries whose mood rounds to it, and the five
\* values add up to totalEntries when the moods are between 1 and 5.
DistributionCountsRoundedMoods ==
    query.kind = "stats" =>
        LET distribution == query.stats.moodDistribution
        IN  /\ 1..5 \subseteq DOMAIN distribution
            /\ \A k \in 1..5 :
                  distribution[k] =
                    Cardinality({i \in 1..Len(build.entries) :
                                   /\ (2 * build.entries[i].moodScore) >= (2 * k) - 1
                                   /\ (2 * build.entries[i].moodScore) < (2 * k) + 1})
            /\ MoodsInRange(build.entries) =>
                  SumOf([k \in 1..5 |-> distribution[k]]) = query.stats.totalEntries

\* the statistics of three entries, two of mood 4 and one of mood 2: the
\* other three keys are there with 0
DistributedThreeMoods ==
    /\ query.kind = "stats"
    /\ [i \in 1..Len(build.entries) |-> build.entries[i].moodScore] = <<4, 2, 4>>
    /\ query.stats.moodDistribution = <<0, 1, 0, 2, 0>>

\* C23: the JSON text of exportTimelineJSON, parsed back, is a list of the
\* same length and order; each entry has the id, title, summary, keywords,
\* moodScore and activities of the original, and its date is a text of the
\* instant of the original date.
ExportedJSONParsesBack ==
    query.kind = "export" =>
        LET parsed == JSONParse(query.json)
        IN  /\ Len(parsed) = Len(build.entries)
            /\ \A i \in 1..Len(parsed) :
                  /\ parsed[i].id = IdChars(build.entries[i].id)
                  /\ parsed[i].title = build.entries[i].title
                  /\ parsed[i].summary = build.entries[i].summary
                  /\ parsed[i].keywords = build.entries[i].keywords
                  /\ parsed[i].moodScore = build.entries[i].moodScore
                  /\ parsed[i].activities = build.entries[i].activities
                  /\ DateOfISOString(parsed[i].date) = build.entries[i].date

\* two entries were exported, one with a summary of characters that JSON
\* escapes and a date of the current time, one with keywords and activities
ExportedEscapedSummary ==
    /\ query.kind = "export"
    /\ Len(query.json) = 2
    /\ build.entries[1].summary = <<"\"", "\\", "n", "\n">>
    /\ build.entries[1].date = Now
    /\ Len(query.json[1].summary) > Len(build.entries[1].summary) + 2
    /\ Len(build.entries[2].activities) = 3

\* C24: the failure of complete() tells which of the two kinds happened: it
\* is not the failure the same service throws for the other kind.
FailureTellsItsKind ==
    completion.threw =>
        completion.error
            # ServiceComplete(completion.svc, OtherFailure(completion.outcome)).error

\* the analyzer an has a backend
HasBackend(an) == an.openAI \/ an.ollama

\* C25: a batch command starts the analyze calls of all its records in one
\* step, before it waits for any: with a backend, each new call has its
\* keyword and its activity call to the backend in flight, none is queued.
FanOutStartsEveryCall ==
    [][Len(calls') > Len(calls) =>
          /\ Len(calls') = Len(calls) + Len(cmd'.records)
          /\ cmd'.first = Len(calls) /\ cmd'.n = Len(cmd'.records)
          /\ \A k \in (Len(calls) + 1)..Len(calls') :
                /\ calls'[k].content = cmd'.records[k - Len(calls)]
                /\ HasBackend(calls'[k].an) =>
                      /\ calls'[k].kw.st = "pending"
                      /\ calls'[k].act.st = "pending"
                      /\ cmd'.pc = "analyzing"]_vars

\* a batch command waits for two analyze calls, both with their keyword and
\* activity calls to the backend in flight
AllCallsInFlight ==
    /\ cmd.name \in BatchCommands
    /\ cmd.pc = "analyzing"
    /\ cmd.n = 2
    /\ \A k \in 1..2 :
         /\ calls[cmd.first + k].kw.st = "pending"
         /\ calls[cmd.first + k].act.st = "pending"

\* the sub-operations of the calls that are suspended at the backend
InFlight(cs) ==
    {<<k, op>> \in (1..Len(cs)) \X SubOps : SubOp(cs[k], op).st = "pending"}

\* C26: nothing is cancelled.  A failure ends one sub-operation only: every
\* other backend call in flight stays in flight, in the failed analyze call
\* and in the other calls of a batch reported as failed; a call whose three
\* extractors returned issues its summary call whatever the command did, a
\* call with a failed extractor never does; and what the calls return after
\* the error reaches neither the command nor the user.
NothingIsCancelled ==
    /\ [](\A k \in 1..Len(calls) :
            /\ ExtractorStates(calls[k]) = {"done"} => calls[k].summary.st # "idle"
            /\ "failed" \in ExtractorStates(calls[k]) => calls[k].summary.st = "idle")
    /\ [][/\ Cardinality(InFlight(calls) \ InFlight(calls')) <= 1
          /\ cmd.pc = "error" =>
                /\ cmd' = cmd /\ modal' = modal /\ notices' = notices
                /\ created' = created /\ emitted' = emitted]_vars

\* a batch is reported as failed: one of its calls failed with a sibling
\* extractor still in flight, and another call has its summary call in
\* flight
FailedBatchStillRunning ==
    /\ cmd.name \in BatchCommands
    /\ cmd.pc = "error"
    /\ cmd.n = 2
    /\ calls[cmd.first + 1].kw.st = "failed"
    /\ calls[cmd.first + 1].act.st = "pending"
    /\ calls[cmd.first + 2].pc = "awaitSummary"
    /\ calls[cmd.first + 2].summary.st = "pending"

\* the value of a text of digits in the radix
RECURSIVE DigitsValue(_, _)
DigitsValue(text, radix) ==
    IF text = <<>> THEN 0
    ELSE (radix * DigitsValue(SubSeq(text, 1, Len(text) - 1), radix))
           + DigitVal(text[Len(text)])

\* text[from..to] is a longest run of characters of set
IsRun(text, from, to, set) ==
    /\ from <= to /\ to <= Len(text)
    /\ \A w \in from..to : text[w] \in set
    /\ to = Len(text) \/ text[to + 1] \notin set

\* text has 0x or 0X and a hexadecimal digit at from
HexAt(text, from) ==
    /\ from + 2 <= Len(text)
    /\ text[from] = "0" /\ text[from + 1] \in {"x", "X"}
    /\ text[from + 2] \in Digits \cup HexLetters

\* text reads as the integer n: white space, a sign or none, and then the
\* digits of n, decimal or hexadecimal after 0x, up to the first character
\* that is none
ParsesTo(text, n) ==
    \E blank \in 0..Len(text), sign \in {"", "+", "-"}, to \in 1..Len(text) :
        LET from == blank + (IF sign = "" THEN 1 ELSE 2)
            unit == IF sign = "-" THEN 0 - 1 ELSE 1
        IN  /\ \A w \in 1..blank : text[w] \in Whitespace
            /\ sign # "" => (blank + 1 <= Len(text) /\ text[blank + 1] = sign)
            /\ \/ /\ ~HexAt(text, from)
                  /\ IsRun(text, from, to, Digits)
                  /\ n = unit * DigitsValue(SubSeq(text, from, to), 10)
               \/ /\ HexAt(text, from)
                  /\ IsRun(text, from + 2, to, Digits \cup HexLetters)
                  /\ n = unit * DigitsValue(SubSeq(text, from + 2, to), 16)

\* C27: when the text has no explicit mood value in range and a backend is
\* there, a success response to the mood prompt always gives a mood score
\* and never an error: the integer the response parses to when that is
\* between 1 and 5, and 3 in every other case.
BackendMoodParsedOr3 ==
    [][\A k \in 1..Len(calls) :
          (calls[k].mood.st = "pending" /\ calls'[k].mood.st # "pending"
             /\ ~completion'.threw) =>
              /\ calls'[k].mood.st = "done"
              /\ \A n \in 1..5 :
                    ParsesTo(completion'.value, n) => calls'[k].mood.val = n
              /\ (\A n \in 1..5 : ~ParsesTo(completion'.value, n)) =>
                    calls'[k].mood.val = 3]_vars

\* the backend answered 6 to the mood prompt of a text whose explicit value
\* is 0, and the mood score is 3
BackendMoodDefaulted ==
    /\ Len(calls) = 1
    /\ calls[1].content.content = <<"xin", "qing", ":", "0">>
    /\ ~completion.threw
    /\ completion.value = <<"6">>
    /\ calls[1].mood = Done(3)

\* C30: every keyword and every activity an extractor returned, and so
\* every one of a result, is a string that is not empty.
NoEmptyKeywordOrActivity ==
    \A k \in 1..Len(calls) :
        /\ calls[k].kw.st = "done" =>
              \A i \in 1..Len(calls[k].kw.val) : calls[k].kw.val[i] # <<>>
        /\ calls[k].act.st = "done" =>
              \A i \in 1..Len(calls[k].act.val) : calls[k].act.val[i] # <<>>

\* the sub-operations of call that are or were suspended at a backend
AtBackend(call) == {op \in SubOps : SubOp(call, op).st \in {"pending", "failed"}}

\* C28: an analyze call uses one variant for all its sub-operations.  It
\* keeps the analyzer it was started on whatever is saved meanwhile; every
\* call it has in flight is to one backend, OpenAI when the analyzer has
\* both; with a backend no keyword, activity or summary comes from the
\* heuristic, and without one nothing is ever sent to a backend.
VariantFixedPerCall ==
    /\ [](\A k \in 1..Len(calls) :
            /\ \A op \in SubOps :
                  SubOp(calls[k], op).st = "pending" =>
                      SubOp(calls[k], op).svc =
                          (IF calls[k].an.openAI THEN "openai" ELSE "ollama")
            /\ ~HasBackend(calls[k].an) => AtBackend(calls[k]) = {})
    /\ [][\A k \in 1..Len(calls') :
            /\ k <= Len(calls) => calls'[k].an = calls[k].an
            /\ HasBackend(calls'[k].an) =>
                  \A op \in {"kw", "act", "summary"} :
                      (SubOp(calls'[k], op).st = "done") =>
                          /\ k <= Len(calls)
                          /\ SubOp(calls[k], op).st \in {"pending", "done"}]_vars

\* an analyze call started on OpenAI has its summary call to OpenAI in
\* flight, after settings without a backend were saved
CallOutlivesItsSettings ==
    \E k \in 1..Len(calls) :
        /\ calls[k].an.openAI
        /\ calls[k].summary = Pending("openai", <<>>)
        /\ ~HasBackend(plugin.analyzer)
        /\ saves.made > 0 /\ saves.waiting = 0

\* the settings st are those the parser and the analyzer an were made of
MadeOfSettings(st, parser, an) ==
    /\ initializeServices(st).parser = parser
    /\ initializeServices(st).analyzer = an

\* C29: a batch command works on one configuration: its analyze calls run
\* on the analyzer that was made together with the parser it scanned with,
\* and generateTimeline and exportAnalysisReport write their file into the
\* folder that parser scanned.
CommandOnOneConfiguration ==
    cmd.name \in BatchCommands =>
        /\ \A k \in 1..cmd.n :
              \E st \in TabSettings : MadeOfSettings(st, cmd.parser, calls[cmd.first + k].an)
        /\ cmd.path # <<>> =>
              cmd.path \in {cmd.parser.diaryFolder \o TimelineName,
                            cmd.parser.diaryFolder \o ReportName}

=============================================================================
